---- MODULE Spec2Model ----
(***************************************************************************)
(* A model of r4ulcl/api_template: the generic resource controller, the    *)
(* database wrapper it calls, the JWT middleware and the route binder.     *)
(*                                                                         *)
(* Strings are sequences of characters, so that strings.Split,             *)
(* strings.TrimPrefix and strings.Contains are computed and not assumed.   *)
(* A character is a one-letter string; "admin", "user" and the words of an *)
(* error text are treated as single hyphen-free characters.                *)
(***************************************************************************)
EXTENDS Integers, Sequences, FiniteSets, TLC

VARIABLES
    store,      \* the MySQL tables: resource name -> set of rows
    inst,       \* models.ModelMap: resource name -> the one shared struct instance
    last,       \* the request most recently answered, with its response
    flight,     \* requests being handled concurrently: worker -> progress
    perms,      \* models.RolePermissions: role -> verb -> resource names
    routes,     \* the routes SetupRouter registered on the mux router
    boot        \* database.ConnectDB: where the start-up stands

vars == <<store, inst, last, flight, perms, routes, boot>>

-----------------------------------------------------------------------------
(* Strings                                                                 *)

Hyphen == "-"

\* The empty Go string, the zero value of a string field.
Empty == <<>>

\* strings.Split(s, "-"): always at least one segment; segments may be empty.
RECURSIVE Split(_)
Split(s) ==
    IF \E i \in 1..Len(s) : s[i] = Hyphen
    THEN LET i == CHOOSE n \in 1..Len(s) :
                      s[n] = Hyphen /\ \A j \in 1..(n - 1) : s[j] # Hyphen
         IN  <<SubSeq(s, 1, i - 1)>> \o Split(SubSeq(s, i + 1, Len(s)))
    ELSE <<s>>

\* The tokenized id of a key: its values joined by "-" in primary-key order.
RECURSIVE Tokenize(_)
Tokenize(vals) ==
    IF Len(vals) = 0 THEN Empty
    ELSE IF Len(vals) = 1 THEN vals[1]
    ELSE vals[1] \o <<Hyphen>> \o Tokenize(Tail(vals))

\* strings.Contains(text, pat): pat occurs as a contiguous run of text. An
\* error text is a sequence of words followed by the characters of any value
\* printed into it; words differing in case are different words.
Contains(text, pat) ==
    \E i \in 1..(Len(text) - Len(pat) + 1) :
        SubSeq(text, i, i + Len(pat) - 1) = pat

\* strings.TrimPrefix(s, prefix)
\* The element of a one-element set. Only({e(x) : x \in {v}}) is e(v) with v
\* computed once.
Only(S) == CHOOSE x \in S : TRUE

TrimPrefix(s, prefix) ==
    IF Len(s) >= Len(prefix) /\ SubSeq(s, 1, Len(prefix)) = prefix
    THEN SubSeq(s, Len(prefix) + 1, Len(s))
    ELSE s

\* strings.Split(s, sep) for a one-character separator.
RECURSIVE SplitOn(_, _)
SplitOn(s, sep) ==
    IF \E i \in 1..Len(s) : s[i] = sep
    THEN LET i == CHOOSE n \in 1..Len(s) :
                      s[n] = sep /\ \A j \in 1..(n - 1) : s[j] # sep
         IN  <<SubSeq(s, 1, i - 1)>> \o SplitOn(SubSeq(s, i + 1, Len(s)), sep)
    ELSE <<s>>

\* strings.TrimSpace(s)
RECURSIVE TrimSpace(_)
TrimSpace(s) ==
    IF Len(s) > 0 /\ s[1] = " " THEN TrimSpace(Tail(s))
    ELSE IF Len(s) > 0 /\ s[Len(s)] = " " THEN TrimSpace(SubSeq(s, 1, Len(s) - 1))
    ELSE s

-----------------------------------------------------------------------------
(* Go's int and int64                                                      *)

\* The width of int and int64. The program is built for a 64-bit platform;
\* the model keeps the arithmetic (two's complement, wrapping on overflow,
\* division truncated toward zero) at a narrower width.
IntBits == 12

RECURSIVE Pow2(_)
Pow2(n) == IF n = 0 THEN 1 ELSE 2 * Pow2(n - 1)

MaxInt == Pow2(IntBits - 1) - 1
MinInt == 0 - Pow2(IntBits - 1)

\* The int a mathematical result is stored as.
Wrap(x) == ((x + Pow2(IntBits - 1)) % Pow2(IntBits)) - Pow2(IntBits - 1)

\* a / b of Go for b > 0.
Quo(a, b) == IF a >= 0 THEN a \div b ELSE 0 - ((0 - a) \div b)

Digits == <<"0", "1", "2", "3", "4", "5", "6", "7", "8", "9">>
IsDigit(c) == \E i \in 1..Len(Digits) : Digits[i] = c
DigitOf(c) == (CHOOSE i \in 1..Len(Digits) : Digits[i] = c) - 1

\* The magnitude a run of digits denotes, MaxInt + 2 standing for every
\* magnitude beyond MaxInt + 1.
RECURSIVE Magnitude(_, _)
Magnitude(s, acc) ==
    IF Len(s) = 0 THEN acc
    ELSE IF acc * 10 + DigitOf(s[1]) > MaxInt + 1 THEN MaxInt + 2
    ELSE Magnitude(Tail(s), acc * 10 + DigitOf(s[1]))

AtoiClamped(s) ==
    LET signed == Len(s) > 0 /\ s[1] \in {"-", "+"}
        digits == IF signed THEN Tail(s) ELSE s
        mag    == Magnitude(digits, 0)
        n      == IF signed /\ s[1] = "-" THEN 0 - mag ELSE mag
    IN  IF Len(digits) = 0 \/ \E i \in 1..Len(digits) : ~IsDigit(digits[i])
        THEN [ok |-> FALSE, n |-> 0]
        ELSE [ok |-> TRUE,
              n |-> IF n > MaxInt THEN MaxInt ELSE IF n < MinInt THEN MinInt ELSE n]

\* strconv.Atoi(s): an optional sign, then one digit or more; a syntax
\* error otherwise, a range error for a value no int holds.
Atoi(s) ==
    LET signed == Len(s) > 0 /\ s[1] \in {"-", "+"}
        digits == IF signed THEN Tail(s) ELSE s
        mag    == Magnitude(digits, 0)
        n      == IF signed /\ s[1] = "-" THEN 0 - mag ELSE mag
    IN  IF Len(digits) = 0 \/ \E i \in 1..Len(digits) : ~IsDigit(digits[i])
        THEN [ok |-> FALSE, n |-> 0]
        ELSE IF n > MaxInt \/ n < MinInt
        THEN [ok |-> FALSE, n |-> IF n > 0 THEN MaxInt ELSE MinInt]
        ELSE [ok |-> TRUE, n |-> n]

\* strconv.Itoa(n)
RECURSIVE Itoa(_)
Itoa(n) ==
    IF n < 0 THEN <<"-">> \o Itoa(0 - n)
    ELSE IF n < 10 THEN <<Digits[n + 1]>>
    ELSE Itoa(n \div 10) \o <<Digits[(n % 10) + 1]>>

-----------------------------------------------------------------------------
(* The entity structs and their tags                                       *)

Resources == {"example1", "exampleRelational", "user"}

\* The fields of each struct in declaration order: Go name, the same name in
\* lower case, json tag (which is also the column name of every field here),
\* and whether the gorm tag contains "primaryKey". Of User the two timestamps
\* are left out; of ExampleRelational the two association fields are
\* left out.
StructFields(res) ==
    CASE res = "example1" ->
           << [name |-> "Field1", lower |-> "field1", json |-> "field1", pk |-> TRUE],
              [name |-> "Field2", lower |-> "field2", json |-> "field2", pk |-> FALSE] >>
      [] res = "exampleRelational" ->
           << [name |-> "Example1Field1", lower |-> "example1field1",
               json |-> "example1_field1", pk |-> TRUE],
              [name |-> "Example2Field1", lower |-> "example2field1",
               json |-> "example2_field1", pk |-> TRUE],
              [name |-> "Field3", lower |-> "field3", json |-> "field3", pk |-> FALSE] >>
      [] res = "user" ->
           << [name |-> "Username", lower |-> "username", json |-> "username", pk |-> TRUE],
              [name |-> "Password", lower |-> "password", json |-> "password", pk |-> FALSE],
              [name |-> "Role", lower |-> "role", json |-> "role", pk |-> FALSE] >>

IsPK(f) == f.pk

\* getJSONPrimaryKeys: the json names of the primaryKey fields, in order.
getJSONPrimaryKeys(res) ==
    LET pks == SelectSeq(StructFields(res), IsPK)
    IN  [i \in 1..Len(pks) |-> pks[i].json]

\* What reflect sees in the value handed to the controller: a pointer to a
\* struct (*T), or a pointer to a pointer (**T).
PtrStruct == "*T"
PtrPtr    == "**T"

\* getPrimaryKeyFields: reflect.ValueOf(model).Elem().NumField() panics
\* unless Elem() is a struct.
getPrimaryKeyFields(kind, res) ==
    IF kind = PtrStruct
    THEN [panic |-> FALSE,
          fields |-> LET pks == SelectSeq(StructFields(res), IsPK)
                     IN  [i \in 1..Len(pks) |-> pks[i].name]]
    ELSE [panic |-> TRUE, fields |-> <<>>]

JSONFields(res) == {StructFields(res)[i].json : i \in 1..Len(StructFields(res))}

\* A fresh struct: every field holds the empty string.
ZeroValue(res) == [f \in JSONFields(res) |-> Empty]

\* getPrimaryKeyValues: the primary-key values of a populated instance.
getPrimaryKeyValues(res, m) ==
    LET pks == getJSONPrimaryKeys(res)
    IN  [i \in 1..Len(pks) |-> m[pks[i]]]

\* The key of a row, and the row of a table with a given key.
KeyOf(res, row) == getPrimaryKeyValues(res, row)
RowsWithKey(rows, res, key) == {r \in rows : KeyOf(res, r) = key}

AllZero(vals) == \A i \in 1..Len(vals) : vals[i] = Empty
SomeZero(vals) == \E i \in 1..Len(vals) : vals[i] = Empty

-----------------------------------------------------------------------------
(* Error texts                                                             *)

NoErr == <<>>

\* The MySQL driver's text of error 1062, as the comment in
\* isDuplicateKeyError gives it: "Duplicate entry ..." with a capital D.
ErrDuplicateEntry(key) ==
    <<"Error", "1062", "Duplicate", "entry">> \o Tokenize(key) \o <<"for", "key", "PRIMARY">>

ErrUnknownColumn == <<"Error", "1054", "Unknown", "column">>
ErrMissingWhere  == <<"WHERE", "conditions", "required">>
ErrRecordNotFound == <<"record", "not", "found">>
ErrMismatchGet ==
    <<"mismatch", "between", "primary", "keys", "and", "tokenized", "ID">>
ErrMismatchUpdate ==
    <<"mismatch", "between", "number", "of", "primary", "keys", "and", "ID", "parts">>
ErrMismatchDelete ==
    <<"mismatch", "between", "primary", "keys", "and", "tokenized", "ID", "parts">>
ErrNoRecordsDeleted(id) == <<"no", "records", "deleted", "for", "ID">> \o id

-----------------------------------------------------------------------------
(* The database collaborator (GORM over MySQL), as the wrapper uses it     *)

\* DB.Create(model): INSERT of the instance's current field values; the
\* primary key is unique.
gormCreate(rows, res, m) ==
    IF RowsWithKey(rows, res, KeyOf(res, m)) # {}
    THEN [err |-> ErrDuplicateEntry(KeyOf(res, m)), rows |-> rows]
    ELSE [err |-> NoErr, rows |-> rows \cup {m}]

\* query.First(dest) with WHERE column = value for each given column: the
\* non-zero primary-key fields of dest are added to the conditions, and the
\* row found is scanned into dest, every column of it.
gormFirst(rows, res, cols, vals, dest) ==
    LET known == \A i \in 1..Len(cols) :
                     \E j \in 1..Len(StructFields(res)) :
                         StructFields(res)[j].json = cols[i]
        pks   == getJSONPrimaryKeys(res)
        hit   == {r \in rows :
                     /\ \A i \in 1..Len(cols) : r[cols[i]] = vals[i]
                     /\ \A i \in 1..Len(pks) :
                            dest[pks[i]] # Empty => r[pks[i]] = dest[pks[i]]}
    IN  IF ~known THEN [err |-> ErrUnknownColumn, m |-> dest]
        ELSE IF hit = {} THEN [err |-> ErrRecordNotFound, m |-> dest]
        ELSE [err |-> NoErr, m |-> CHOOSE r \in hit : TRUE]

\* DB.Save(model): with a zero primary-key field a plain INSERT, otherwise
\* an UPDATE of all columns by primary key, inserting when no row matched.
gormSave(rows, res, m) ==
    IF SomeZero(KeyOf(res, m))
    THEN gormCreate(rows, res, m)
    ELSE [err |-> NoErr,
          rows |-> (rows \ RowsWithKey(rows, res, KeyOf(res, m))) \cup {m}]

\* tx.Delete(model): DELETE keyed on the primary-key values of the instance;
\* refused when they are all zero.
gormDelete(rows, res, m) ==
    IF AllZero(KeyOf(res, m))
    THEN [err |-> ErrMissingWhere, rows |-> rows, affected |-> 0]
    ELSE [err |-> NoErr,
          rows |-> rows \ RowsWithKey(rows, res, KeyOf(res, m)),
          affected |-> Cardinality(RowsWithKey(rows, res, KeyOf(res, m)))]

-----------------------------------------------------------------------------
(* database.ConnectDB                                                      *)

\* The MySQL server as a call finds it: it takes connections, it is not
\* reachable, or it refuses the credentials.
ServerStates == {"up", "down", "denying"}

ErrConnectionRefused == <<"connection", "refused">>
ErrAccessDenied      == <<"Access", "denied">>
ErrOf(server) ==
    IF server = "down" THEN ErrConnectionRefused ELSE ErrAccessDenied

\* for attempts := 1; attempts <= 5; attempts++
LastAttempt == 5
\* const maxRetries = 5
maxRetries == 5

\* ConnectDB before its first call of gorm.Open, and after its return.
Started(server) ==
    [pc |-> "open", attempts |-> 1, err |-> NoErr, db |-> FALSE, server |-> server]
Connected ==
    [pc |-> "connected", attempts |-> 1, err |-> NoErr, db |-> TRUE, server |-> "up"]

\* A loop that logs every failure and sleeps.
AfterFailureKeepGoing(attempts) == "sleep"

\* After a failed gorm.Open: log.Fatalf on the attempt maxRetries, the sleep
\* otherwise.
AfterFailure(attempts) ==
    IF attempts = maxRetries THEN "exited" ELSE "sleep"

\* gorm.Open: on success the loop is left for the migrations.
OpenStep ==
    /\ boot.pc = "open"
    /\ boot' = IF boot.server = "up"
               THEN [boot EXCEPT !.pc = "migrate", !.err = NoErr, !.db = TRUE]
               ELSE [boot EXCEPT !.pc = AfterFailure(boot.attempts),
                                 !.err = ErrOf(boot.server)]
    /\ UNCHANGED <<store, inst, last, flight, perms, routes>>

\* time.Sleep, attempts++ and the test of the loop.
SleepStep ==
    /\ boot.pc = "sleep"
    /\ boot' = [boot EXCEPT !.attempts = @ + 1,
                            !.pc = IF boot.attempts + 1 <= LastAttempt THEN "open"
                                   ELSE "migrate"]
    /\ UNCHANGED <<store, inst, last, flight, perms, routes>>

\* db.Debug().AutoMigrate of Example1, Example2 and User: a nil db panics,
\* an error is fatal.
MigrateStep ==
    /\ boot.pc = "migrate"
    /\ boot' = IF ~boot.db THEN [boot EXCEPT !.pc = "panicked"]
               ELSE IF boot.server = "up"
               THEN [boot EXCEPT !.pc = "migrate-relational"]
               ELSE [boot EXCEPT !.pc = "exited", !.err = ErrOf(boot.server)]
    /\ UNCHANGED <<store, inst, last, flight, perms, routes>>

\* db.Debug().AutoMigrate of ExampleRelational, then DB = db.
MigrateRelationalStep ==
    /\ boot.pc = "migrate-relational"
    /\ boot' = IF boot.server = "up"
               THEN [boot EXCEPT !.pc = "connected"]
               ELSE [boot EXCEPT !.pc = "exited", !.err = ErrOf(boot.server)]
    /\ UNCHANGED <<store, inst, last, flight, perms, routes>>

\* The server starts, stops or changes its accounts while the process runs.
ServerChanges(server) ==
    /\ boot.server # server
    /\ boot' = [boot EXCEPT !.server = server]
    /\ UNCHANGED <<store, inst, last, flight, perms, routes>>

-----------------------------------------------------------------------------
(* database.BaseController                                                 *)

\* isDuplicateKeyError: the driver error is no *pq.Error, so only the text
\* test for "1062" can succeed.
isDuplicateKeyError(err) == Contains(err, <<"1062">>)

\* An UpdateRecords that saves the instance when First finds no row.
UpdateRecordsUpsert(rows, res, m, id) ==
    IF id # Empty /\ Len(getJSONPrimaryKeys(res)) # Len(Split(id))
    THEN [err |-> ErrMismatchUpdate, rows |-> rows, m |-> m]
    ELSE Only({[err |-> saved.err, rows |-> saved.rows, m |-> m] :
                  saved \in {gormSave(rows, res, m)}})

\* UpdateRecords(model, id): m is the instance already holding the decoded
\* body.
UpdateRecords(rows, res, m, id) ==
    LET primaryKeys == getJSONPrimaryKeys(res)
        parts       == Split(id)
        keyValues   == IF id # Empty THEN parts ELSE getPrimaryKeyValues(res, m)
    IN  IF id # Empty /\ Len(primaryKeys) # Len(parts)
        THEN [err |-> ErrMismatchUpdate, rows |-> rows, m |-> m]
        ELSE Only({IF found.err # NoErr
                   THEN [err |-> found.err, rows |-> rows, m |-> found.m]
                   ELSE Only({[err |-> saved.err, rows |-> saved.rows, m |-> found.m] :
                                 saved \in {gormSave(rows, res, found.m)}}) :
                      found \in {gormFirst(rows, res, primaryKeys, keyValues, m)}})

\* CreateOrUpdateRecord(model, overwrite)
CreateOrUpdateRecord(rows, res, m, overwrite) ==
    Only({IF created.err = NoErr
          THEN [err |-> NoErr, rows |-> created.rows, m |-> m]
          ELSE IF isDuplicateKeyError(created.err) /\ overwrite
          THEN UpdateRecords(rows, res, m, Empty)
          ELSE [err |-> created.err, rows |-> rows, m |-> m] :
             created \in {gormCreate(rows, res, m)}})

\* GetRecordsByID(model, id): the map handed to First is keyed by Go field
\* names, which MySQL resolves without regard to case.
GetRecordsByID(rows, kind, res, m, id) ==
    LET parts == Split(id)
        pkf   == getPrimaryKeyFields(kind, res)
        pks   == SelectSeq(StructFields(res), IsPK)
        cols  == [i \in 1..Len(pks) |->
                     IF pks[i].lower = pks[i].json THEN pks[i].json ELSE pks[i].name]
        found == gormFirst(rows, res, cols, parts, m)
    IN  IF pkf.panic
        THEN [panic |-> TRUE, err |-> NoErr, m |-> m]
        ELSE IF Len(pkf.fields) # Len(parts)
        THEN [panic |-> FALSE, err |-> ErrMismatchGet, m |-> m]
        ELSE [panic |-> FALSE, err |-> found.err, m |-> found.m]

\* The instance after DeleteRecords wrote the id's segments into its
\* primary-key fields, in field order.
SetPrimaryKeys(res, m, parts) ==
    LET pks == getJSONPrimaryKeys(res)
    IN  [f \in DOMAIN m |->
            IF \E i \in 1..Len(pks) : pks[i] = f
            THEN parts[CHOOSE i \in 1..Len(pks) : pks[i] = f]
            ELSE m[f]]

\* A DeleteRecords that does not look at RowsAffected.
DeleteRecordsAnyCount(rows, res, m, id) ==
    IF Len(getJSONPrimaryKeys(res)) # Len(Split(id))
    THEN [err |-> ErrMismatchDelete, rows |-> rows, m |-> m]
    ELSE [err |-> gormDelete(rows, res, SetPrimaryKeys(res, m, Split(id))).err,
          rows |-> gormDelete(rows, res, SetPrimaryKeys(res, m, Split(id))).rows,
          m |-> SetPrimaryKeys(res, m, Split(id))]

\* DeleteRecords(model, id)
DeleteRecords(rows, res, m, id) ==
    IF Len(getJSONPrimaryKeys(res)) # Len(Split(id))
    THEN [err |-> ErrMismatchDelete, rows |-> rows, m |-> m]
    ELSE Only({Only({IF deleted.err # NoErr
                     THEN [err |-> deleted.err, rows |-> rows, m |-> keyed]
                     ELSE IF deleted.affected = 0
                     THEN [err |-> ErrNoRecordsDeleted(id), rows |-> rows, m |-> keyed]
                     ELSE [err |-> NoErr, rows |-> deleted.rows, m |-> keyed] :
                        deleted \in {gormDelete(rows, res, keyed)}}) :
                  keyed \in {SetPrimaryKeys(res, m, Split(id))}})

-----------------------------------------------------------------------------
(* controllers.Controller: the HTTP handlers                               *)

StatusOK                  == 200
StatusCreated             == 201
StatusBadRequest          == 400
StatusUnauthorized        == 401
StatusForbidden           == 403
StatusNotFound            == 404
StatusConflict            == 409
StatusInternalServerError == 500

\* A request body: the bytes before its first '[' or '{' (prefix), that
\* bracket (open, "" when it has none), whether it is well-formed JSON of
\* that shape (ok), and the fields it gives (obj for an object, list for an
\* array of objects). A field the body does not mention is absent from obj.
NoBody == [prefix |-> <<>>, open |-> "", ok |-> FALSE, obj |-> <<>>, list |-> <<>>]
ObjectBody(obj) ==
    [prefix |-> <<>>, open |-> "{", ok |-> TRUE, obj |-> obj, list |-> <<>>]
MalformedBody ==
    [prefix |-> <<>>, open |-> "{", ok |-> FALSE, obj |-> <<>>, list |-> <<>>]

\* json.Decoder.Decode into an existing struct: the fields the body gives
\* are set, every other field keeps the value it had.
Decode(m, obj) ==
    [f \in DOMAIN m |-> IF f \in DOMAIN obj THEN obj[f] ELSE m[f]]

\* What a handler returns to the server: the response (status 0 and panic
\* TRUE when the handler panicked and no response was written), the table
\* and the instance it leaves behind.
Reply(status, entity, err, rows, m) ==
    [status |-> status, panic |-> FALSE, entity |-> entity, err |-> err,
     rows |-> rows, m |-> m]
Panicked(rows, m) ==
    [status |-> 0, panic |-> TRUE, entity |-> <<>>, err |-> NoErr,
     rows |-> rows, m |-> m]

\* The loop of Create that reads the body byte by byte until '[' or '{':
\* bytes.TrimSpace(firstBytes)[0] indexes an empty slice on a whitespace
\* byte.
ScanFirstByte(body) ==
    IF \E i \in 1..Len(body.prefix) : body.prefix[i] = " "
    THEN [panic |-> TRUE, first |-> ""]
    ELSE IF body.open # ""
    THEN [panic |-> FALSE, first |-> body.open]
    ELSE [panic |-> FALSE,
          first |-> IF Len(body.prefix) = 0 THEN ""
                    ELSE body.prefix[Len(body.prefix)]]

\* DB.Create(&[]T): one INSERT statement for all the rows, refused as a
\* whole on a duplicate key.
RECURSIVE gormCreateBatch(_, _, _)
gormCreateBatch(rows, res, list) ==
    IF Len(list) = 0 THEN [err |-> NoErr, rows |-> rows]
    ELSE LET one == gormCreate(rows, res, list[1])
         IN  IF one.err # NoErr THEN one
             ELSE gormCreateBatch(one.rows, res, Tail(list))

\* DB.Create of a slice with no element.
ErrEmptySlice == <<"empty", "slice", "found">>

\* Controller.Create, bulk insert path: the array is decoded into a fresh
\* slice, not into the shared instance. Decode passes over blanks before
\* the array.
CreateBulk(rows, res, m, body) ==
    IF ~body.ok \/ \E i \in 1..Len(body.prefix) : body.prefix[i] # " "
    THEN Reply(StatusBadRequest, <<>>, <<"Invalid", "JSON", "array">>, rows, m)
    ELSE Only({Only({IF made.err = NoErr
                     THEN Reply(StatusCreated, fresh, NoErr, made.rows, m)
                     ELSE IF Contains(made.err, <<"duplicate">>)
                     THEN Reply(StatusConflict, <<>>, made.err, rows, m)
                     ELSE Reply(StatusInternalServerError, <<>>, made.err, rows, m) :
                        made \in {IF Len(fresh) = 0
                                  THEN [err |-> ErrEmptySlice, rows |-> rows]
                                  ELSE gormCreateBatch(rows, res, fresh)}}) :
                  fresh \in {[i \in 1..Len(body.list) |->
                                Decode(ZeroValue(res), body.list[i])]}})

\* Controller.Create, single object path, steps 7 and 8: the decoded
\* instance is stored and written back as the response.
CreateDecoded(rows, res, decoded, overwrite) ==
    Only({IF done.err = NoErr
          THEN Reply(StatusCreated, done.m, NoErr, done.rows, done.m)
          ELSE IF Contains(done.err, <<"duplicate">>)
          THEN Reply(StatusConflict, <<>>, done.err, done.rows, done.m)
          ELSE Reply(StatusInternalServerError, <<>>, done.err, done.rows, done.m) :
             done \in {CreateOrUpdateRecord(rows, res, decoded, overwrite)}})

\* Controller.Create, single object path: the body is decoded into the
\* instance the route was registered with (step 6), then stored.
CreateSingle(rows, res, m, body, overwrite) ==
    IF ~body.ok \/ body.open # "{"
       \/ \E i \in 1..Len(body.prefix) : body.prefix[i] # " "
    THEN Reply(StatusBadRequest, <<>>, <<"Invalid", "JSON", "object">>, rows, m)
    ELSE CreateDecoded(rows, res, Decode(m, body.obj), overwrite)

\* Controller.Create
Create(rows, res, m, body, overwrite) ==
    LET scan == ScanFirstByte(body)
    IN  IF scan.panic THEN Panicked(rows, m)
        ELSE IF scan.first = "[" THEN CreateBulk(rows, res, m, body)
        ELSE CreateSingle(rows, res, m, body, overwrite)

\* Controller.GetByID
GetByID(rows, kind, res, m, id) ==
    Only({IF got.panic THEN Panicked(rows, m)
          ELSE IF got.err = NoErr
          THEN Reply(StatusOK, got.m, NoErr, rows, got.m)
          ELSE IF Contains(got.err, <<"record", "not", "found">>)
          THEN Reply(StatusNotFound, <<>>, got.err, rows, got.m)
          ELSE Reply(StatusInternalServerError, <<>>, got.err, rows, got.m) :
             got \in {GetRecordsByID(rows, kind, res, m, id)}})

\* Controller.Update
Update(rows, res, m, id, body) ==
    IF ~body.ok \/ body.open # "{"
       \/ \E i \in 1..Len(body.prefix) : body.prefix[i] # " "
    THEN Reply(StatusBadRequest, <<>>, <<"invalid", "JSON">>, rows, m)
    ELSE Only({IF done.err = NoErr
               THEN Reply(StatusOK, done.m, NoErr, done.rows, done.m)
               ELSE IF Contains(done.err, <<"record", "not", "found">>)
               THEN Reply(StatusNotFound, <<>>, done.err, done.rows, done.m)
               ELSE Reply(StatusInternalServerError, <<>>, done.err, done.rows, done.m) :
                  done \in {UpdateRecords(rows, res, Decode(m, body.obj), id)}})

\* Controller.Delete
Delete(rows, res, m, id) ==
    Only({IF done.err = NoErr
          THEN Reply(StatusOK, [message |-> <<"Deleted", "successfully">>],
                     NoErr, done.rows, done.m)
          ELSE IF \/ Contains(done.err, <<"no", "records", "deleted">>)
                  \/ Contains(done.err, <<"not", "found">>)
          THEN Reply(StatusNotFound, <<>>, done.err, done.rows, done.m)
          ELSE Reply(StatusInternalServerError, <<>>, done.err, done.rows, done.m) :
             done \in {DeleteRecords(rows, res, m, id)}})

DefaultPage     == 1
DefaultPageSize == 1000

\* url.Values: each key of the query string with the values given for it,
\* in the order they were given. Get is the first value, "" for no value.
NoQuery == <<>>
Get(queryVals, key) ==
    IF key \in DOMAIN queryVals THEN queryVals[key][1] ELSE Empty

\* strings.SplitN(s, sep, 2)
SplitN2(s, sep) ==
    IF \E i \in 1..Len(s) : s[i] = sep
    THEN LET i == CHOOSE n \in 1..Len(s) :
                      s[n] = sep /\ \A j \in 1..(n - 1) : s[j] # sep
         IN  <<SubSeq(s, 1, i - 1), SubSeq(s, i + 1, Len(s))>>
    ELSE <<s>>

\* strings.ToLower on the words the model writes in more than one case.
ToLower(s) ==
    [i \in 1..Len(s) |-> IF s[i] \in {"TRUE", "True"} THEN "true" ELSE s[i]]

\* The order of the column collation: the characters values are made of,
\* in ascending order; a value sorts before every value it is a proper
\* prefix of. Compare is negative, zero or positive.
Alphabet == <<"a", "admin", "b", "c", "user", "x", "y">>
Rank(c) == CHOOSE i \in 1..Len(Alphabet) : Alphabet[i] = c
RECURSIVE Compare(_, _)
Compare(u, v) ==
    IF Len(u) = 0 /\ Len(v) = 0 THEN 0
    ELSE IF Len(u) = 0 THEN 0 - 1
    ELSE IF Len(v) = 0 THEN 1
    ELSE IF u[1] = v[1] THEN Compare(Tail(u), Tail(v))
    ELSE IF Rank(u[1]) < Rank(v[1]) THEN 0 - 1 ELSE 1

\* The key of applyFilters' loop: filter[field][operator], anything else is
\* passed over.
FilterOperators ==
    {"eq", "ne", "neq", "contains", "ncontains", "gt", "gte", "lt", "lte",
     "in", "nin", "isnull"}

ParseFilterKey(rawKey) ==
    LET none   == [ok |-> FALSE, field |-> Empty, operator |-> ""]
        inside == Tail(rawKey)
        parts  == SplitN2(SubSeq(inside, 1, Len(inside) - 1), "][")
    IN  IF Len(rawKey) = 0 \/ rawKey[1] # "filter[" THEN none
        ELSE IF Len(inside) = 0 \/ inside[Len(inside)] # "]" THEN none
        ELSE IF Len(parts) # 2 THEN none
        ELSE IF Len(parts[2]) # 1 \/ parts[2][1] \notin FilterOperators THEN none
        ELSE [ok |-> TRUE, field |-> parts[1], operator |-> parts[2][1]]

\* The conditions applyFilters adds to the statement: one for each key of
\* the query that parses, with the first value given for that key.
Conditions(queryVals) ==
    {[field |-> ParseFilterKey(k).field, operator |-> ParseFilterKey(k).operator,
      value |-> queryVals[k][1]] :
        k \in {rawKey \in DOMAIN queryVals : ParseFilterKey(rawKey).ok}}

\* The WHERE clause of one condition on one row. No column is nullable.
Holds(row, cond) ==
    LET col  == row[cond.field[1]]
        list == {SplitOn(cond.value, ",")[i] :
                    i \in 1..Len(SplitOn(cond.value, ","))}
    IN  CASE cond.operator = "eq"        -> col = cond.value
          [] cond.operator \in {"ne", "neq"} -> col # cond.value
          [] cond.operator = "contains"  -> Contains(col, cond.value)
          [] cond.operator = "ncontains" -> ~Contains(col, cond.value)
          [] cond.operator = "gt"        -> Compare(col, cond.value) > 0
          [] cond.operator = "gte"       -> Compare(col, cond.value) >= 0
          [] cond.operator = "lt"        -> Compare(col, cond.value) < 0
          [] cond.operator = "lte"       -> Compare(col, cond.value) <= 0
          [] cond.operator = "in"        -> col \in list
          [] cond.operator = "nin"       -> col \notin list
          [] cond.operator = "isnull"    ->
               ToLower(cond.value) \notin {<<"true">>, <<"1">>}

\* A name is a column of the resource's table.
IsColumn(res, name) == Len(name) = 1 /\ name[1] \in JSONFields(res)

\* applyFilters, as the statement it builds selects: the rows that satisfy
\* every condition; the field is written into the statement as given, and
\* the database refuses a statement that names no column.
applyFiltersStrict(rows, res, queryVals) ==
    Only({IF \E k \in DOMAIN queryVals :
                 Len(k) > 0 /\ k[1] = "filter[" /\ ~ParseFilterKey(k).ok
          THEN [err |-> ErrUnknownColumn, rows |-> {}]
          ELSE IF \E cond \in conds : ~IsColumn(res, cond.field)
          THEN [err |-> ErrUnknownColumn, rows |-> {}]
          ELSE [err |-> NoErr,
                rows |-> {row \in rows : \A cond \in conds : Holds(row, cond)}] :
             conds \in {Conditions(queryVals)}})

applyFilters(rows, res, queryVals) ==
    Only({IF \E cond \in conds : ~IsColumn(res, cond.field)
          THEN [err |-> ErrUnknownColumn, rows |-> {}]
          ELSE [err |-> NoErr,
                rows |-> {row \in rows : \A cond \in conds : Holds(row, cond)}] :
             conds \in {Conditions(queryVals)}})

\* applySort: the ORDER BY terms of the sort parameter, in order.
applySort(queryVals) ==
    LET fields == SplitOn(Get(queryVals, <<"sort">>), ",")
        named  == [i \in 1..Len(fields) |-> TrimSpace(fields[i])]
        kept   == SelectSeq(named, LAMBDA f : f # Empty)
    IN  IF TrimSpace(Get(queryVals, <<"sort">>)) = Empty THEN <<>>
        ELSE [i \in 1..Len(kept) |->
                IF kept[i][1] = Hyphen
                THEN [field |-> Tail(kept[i]), desc |-> TRUE]
                ELSE [field |-> kept[i], desc |-> FALSE]]

\* Row r comes before row o under the ORDER BY terms; rows the terms do not
\* tell apart come in primary-key order, the order of the clustered index.
RECURSIVE KeyBefore(_, _)
KeyBefore(k, l) ==
    IF Len(k) = 0 THEN FALSE
    ELSE IF Compare(k[1], l[1]) = 0 THEN KeyBefore(Tail(k), Tail(l))
    ELSE Compare(k[1], l[1]) < 0

RECURSIVE RowBefore(_, _, _, _)
RowBefore(res, order, r, o) ==
    IF Len(order) = 0 THEN KeyBefore(KeyOf(res, r), KeyOf(res, o))
    ELSE LET c == Compare(r[order[1].field[1]], o[order[1].field[1]])
         IN  IF c = 0 THEN RowBefore(res, Tail(order), r, o)
             ELSE IF order[1].desc THEN c > 0 ELSE c < 0

\* The rows of a SELECT in the order the database returns them.
RECURSIVE Ordered(_, _, _)
Ordered(rows, res, order) ==
    IF rows = {} THEN <<>>
    ELSE Only({<<first>> \o Ordered(rows \ {first}, res, order) :
                  first \in {r \in rows :
                               \A o \in rows \ {r} : RowBefore(res, order, r, o)}})

\* LIMIT perPage OFFSET offset; GORM writes no OFFSET for an offset that is
\* not positive.
LimitOffset(found, perPage, offset) ==
    LET from == IF offset > 0 THEN offset ELSE 0
    IN  SubSeq(found, from + 1,
               IF from + perPage < Len(found) THEN from + perPage ELSE Len(found))

\* makeLink: the path, the query without page and page_size, and the two
\* set anew. "" stands for no link.
copyQueryExcluding(queryVals, excluded) ==
    [k \in DOMAIN queryVals \ excluded |-> queryVals[k]]

makeLink(res, queryVals, p, perPage) ==
    <<res, copyQueryExcluding(queryVals, {<<"page">>, <<"page_size">>}),
      Itoa(p), Itoa(perPage)>>

prevLink(res, queryVals, page, perPage) ==
    IF page > 1 THEN makeLink(res, queryVals, page - 1, perPage) ELSE Empty

nextLinkInclusive(res, queryVals, page, totalPages, perPage) ==
    IF page <= totalPages THEN makeLink(res, queryVals, Wrap(page + 1), perPage)
    ELSE Empty

nextLink(res, queryVals, page, totalPages, perPage) ==
    IF page < totalPages THEN makeLink(res, queryVals, Wrap(page + 1), perPage)
    ELSE Empty

\* totalPages := int((totalItems + int64(perPage) - 1) / int64(perPage))
TotalPages(totalItems, perPage) ==
    Quo(Wrap(Wrap(totalItems + perPage) - 1), perPage)

\* Controller.GetAll, after the count: the page of the rows the data query
\* matches, the meta block from the count, and the links. The slice the
\* rows are read into is fresh.
GetAllPage(rows, res, m, queryVals, page, perPage, totalItems, matching, order) ==
    Only({Reply(StatusOK,
                [data  |-> LimitOffset(Ordered(matching, res, order), perPage,
                                       Wrap((page - 1) * perPage)),
                 meta  |-> [current_page |-> page, page_size |-> perPage,
                            total_items |-> totalItems,
                            total_pages |-> totalPages],
                 links |-> [self  |-> makeLink(res, queryVals, page, perPage),
                            first |-> makeLink(res, queryVals, 1, perPage),
                            prev  |-> prevLink(res, queryVals, page, perPage),
                            next  |-> nextLink(res, queryVals, page, totalPages,
                                               perPage),
                            last  |-> makeLink(res, queryVals, totalPages, perPage)]],
                NoErr, rows, m) :
             totalPages \in {TotalPages(totalItems, perPage)}})

\* The page and the page size in effect: the parameter when Atoi takes it
\* and it is positive, the default otherwise.
PageParam(queryVals) ==
    Only({IF p.ok /\ p.n > 0 THEN p.n ELSE DefaultPage :
             p \in {Atoi(Get(queryVals, <<"page">>))}})
PerPageParam(queryVals) ==
    Only({IF pp.ok /\ pp.n > 0 THEN pp.n ELSE DefaultPageSize :
             pp \in {Atoi(Get(queryVals, <<"page_size">>))}})

\* Controller.GetAll, the count query and the data query answered from the
\* same rows.
GetAll(rows, res, m, queryVals) ==
    Only({Only({
        IF counted.err # NoErr
        THEN Reply(StatusInternalServerError, <<>>, counted.err, rows, m)
        ELSE IF \E i \in 1..Len(order) : ~IsColumn(res, order[i].field)
        THEN Reply(StatusInternalServerError, <<>>, ErrUnknownColumn, rows, m)
        ELSE GetAllPage(rows, res, m, queryVals,
                        PageParam(queryVals), PerPageParam(queryVals),
                        Cardinality(counted.rows), counted.rows, order) :
            counted \in {applyFilters(rows, res, queryVals)}}) :
            order \in {applySort(queryVals)}})

-----------------------------------------------------------------------------
(* utils.ParseJWT and middlewares.AuthMiddleware                           *)

JWTSecret == "secret"

\* The tokens a client may present. alg is the signing method named in the
\* token's header, key the secret it was signed with, expired whether its
\* exp claim lies in the past, claims the claims it carries; a claim value is
\* a string (str TRUE) or something else (a number). tWeekOld is a token
\* GenerateJWT made eight days ago: it carries no iat claim and its exp lies
\* two days ahead. An iat claim is written as the number of days it lies in
\* the past.
Str(v) == [str |-> TRUE, val |-> v]
Num(v) == [str |-> FALSE, val |-> v]
Token(alg, key, expired, claims) ==
    [alg |-> alg, key |-> key, expired |-> expired, claims |-> claims]

Tokens ==
    [t \in {"tAdmin", "tUser", "tGuest", "tExpired", "tForged", "tRS256", "tNoRole",
            "tNoUser", "tEmptyRole", "tEmptyUser", "tNumRole", "tNumUser",
            "tWeekOld", "tIatOld", "tIatFresh", "tGuest256"} |->
       CASE t = "tAdmin" ->
              Token("HS256", JWTSecret, FALSE,
                    [username |-> Str("admin"), role |-> Str("admin")])
         [] t = "tUser" ->
              Token("HS256", JWTSecret, FALSE,
                    [username |-> Str("u"), role |-> Str("user")])
         [] t = "tGuest" ->
              Token("HS512", JWTSecret, FALSE,
                    [username |-> Str("g"), role |-> Str("guest")])
         [] t = "tExpired" ->
              Token("HS256", JWTSecret, TRUE,
                    [username |-> Str("admin"), role |-> Str("admin")])
         [] t = "tForged" ->
              Token("HS256", "other", FALSE,
                    [username |-> Str("admin"), role |-> Str("admin")])
         [] t = "tRS256" ->
              Token("RS256", JWTSecret, FALSE,
                    [username |-> Str("admin"), role |-> Str("admin")])
         [] t = "tNoRole" ->
              Token("HS256", JWTSecret, FALSE, [username |-> Str("admin")])
         [] t = "tNoUser" ->
              Token("HS256", JWTSecret, FALSE, [role |-> Str("admin")])
         [] t = "tEmptyRole" ->
              Token("HS256", JWTSecret, FALSE,
                    [username |-> Str("admin"), role |-> Str("")])
         [] t = "tEmptyUser" ->
              Token("HS256", JWTSecret, FALSE,
                    [username |-> Str(""), role |-> Str("admin")])
         [] t = "tNumRole" ->
              Token("HS256", JWTSecret, FALSE,
                    [username |-> Str("admin"), role |-> Num("7")])
         [] t = "tNumUser" ->
              Token("HS256", JWTSecret, FALSE,
                    [username |-> Num("7"), role |-> Str("admin")])
         [] t = "tWeekOld" ->
              Token("HS256", JWTSecret, FALSE,
                    [username |-> Str("w"), role |-> Str("user")])
         [] t = "tIatOld" ->
              Token("HS256", JWTSecret, FALSE,
                    [username |-> Str("admin"), role |-> Str("admin"),
                     iat |-> Num(8)])
         [] t = "tIatFresh" ->
              Token("HS256", JWTSecret, FALSE,
                    [username |-> Str("admin"), role |-> Str("admin"),
                     iat |-> Num(1)])
         [] t = "tGuest256" ->
              Token("HS256", JWTSecret, FALSE,
                    [username |-> Str("g"), role |-> Str("guest")])]

HMACMethods == {"HS256", "HS384", "HS512"}

\* A parser that does not look at the exp claim.
ParseJWTAnyTime(tokenString, secret) ==
    IF Len(tokenString) # 1 \/ tokenString[1] \notin DOMAIN Tokens
    THEN [err |-> TRUE, claims |-> <<>>]
    ELSE IF Tokens[tokenString[1]].alg \notin HMACMethods
            \/ Tokens[tokenString[1]].key # secret
    THEN [err |-> TRUE, claims |-> <<>>]
    ELSE [err |-> FALSE, claims |-> Tokens[tokenString[1]].claims]

\* utils.ParseJWT(tokenString, secret): the string must be one token, signed
\* with an HMAC method and this secret, and not expired.
ParseJWT(tokenString, secret) ==
    IF Len(tokenString) # 1 \/ tokenString[1] \notin DOMAIN Tokens
    THEN [err |-> TRUE, claims |-> <<>>]
    ELSE LET t == Tokens[tokenString[1]]
         IN  IF t.alg \notin HMACMethods \/ t.key # secret \/ t.expired
             THEN [err |-> TRUE, claims |-> <<>>]
             ELSE [err |-> FALSE, claims |-> t.claims]

NoIdentity == [username |-> "", role |-> ""]

\* A middleware that takes only a header that starts with "Bearer ".
AuthMiddlewareBearerOnly(authHeader, secret) ==
    IF Len(authHeader) >= 2 /\ authHeader[1] = "Bearer "
          /\ ~ParseJWT(Tail(authHeader), secret).err
          /\ {"username", "role"} \subseteq DOMAIN ParseJWT(Tail(authHeader), secret).claims
          /\ ParseJWT(Tail(authHeader), secret).claims.username.str
          /\ ParseJWT(Tail(authHeader), secret).claims.role.str
          /\ ParseJWT(Tail(authHeader), secret).claims.username.val # ""
          /\ ParseJWT(Tail(authHeader), secret).claims.role.val # ""
    THEN [pass |-> TRUE, status |-> 0,
          ctx |-> [username |-> ParseJWT(Tail(authHeader), secret).claims.username.val,
                   role |-> ParseJWT(Tail(authHeader), secret).claims.role.val]]
    ELSE [pass |-> FALSE, status |-> StatusUnauthorized, ctx |-> NoIdentity]

\* AuthMiddleware(secret): pass says whether next.ServeHTTP is called, ctx is
\* the identity put in the request context.
AuthMiddleware(authHeader, secret) ==
    LET tokenString == TrimPrefix(authHeader, <<"Bearer ">>)
        parsed      == ParseJWT(tokenString, secret)
        claims      == parsed.claims
        userOK      == "username" \in DOMAIN claims
        roleOK      == "role" \in DOMAIN claims
    IN  IF authHeader = Empty
        THEN [pass |-> FALSE, status |-> StatusUnauthorized, ctx |-> NoIdentity]
        ELSE IF parsed.err
        THEN [pass |-> FALSE, status |-> StatusUnauthorized, ctx |-> NoIdentity]
        ELSE IF ~userOK \/ ~roleOK
        THEN [pass |-> FALSE, status |-> StatusUnauthorized, ctx |-> NoIdentity]
        ELSE IF \/ ~claims.username.str \/ ~claims.role.str
                \/ claims.username.val = "" \/ claims.role.val = ""
        THEN [pass |-> FALSE, status |-> StatusUnauthorized, ctx |-> NoIdentity]
        ELSE [pass |-> TRUE, status |-> 0,
              ctx |-> [username |-> claims.username.val, role |-> claims.role.val]]

\* A role check that lets every role through.
RoleMiddlewareAnyRole(allowedRoles, role) == role # ""

\* RoleMiddleware(allowedRoles...): TRUE when next.ServeHTTP is called.
RoleMiddleware(allowedRoles, role) == role \in allowedRoles

-----------------------------------------------------------------------------
(* controllers.AuthController: the bootstrap admin and POST /login         *)

\* ADMIN_PASSWORD as docker-compose.yml sets it.
AdminPassword == <<"SuperSecurePassword">>

\* utils.HashPassword and utils.CheckPassword: a hash is not the password,
\* and it verifies the password it was made from and no other.
HashPassword(password) == <<"bcrypt">> \o password
CheckPassword(hashedPassword, password) == hashedPassword = <<"bcrypt">> \o password

\* The user main registers: RegisterUser stores the hash of the password.
BootstrapAdmin ==
    [username |-> <<"admin">>, password |-> HashPassword(AdminPassword),
     role |-> <<"admin">>]

\* utils.GenerateJWT(username, role, secret): a token signed with HS256 and
\* the secret, not expired, that carries the two claims.
GenerateJWT(username, role, secret) ==
    Token("HS256", secret, FALSE,
          [username |-> Str(IF Len(username) = 1 THEN username[1] ELSE ""),
           role |-> Str(IF Len(role) = 1 THEN role[1] ELSE "")])

\* The string a token is sent as.
SignedString(token) ==
    IF \E t \in DOMAIN Tokens : Tokens[t] = token
    THEN <<CHOOSE t \in DOMAIN Tokens : Tokens[t] = token>>
    ELSE <<"tOther">>

\* AuthController.handleLogin. The body is decoded into a struct of its own.
handleLogin(rows, body, secret) ==
    IF ~body.ok \/ body.open # "{"
       \/ \E i \in 1..Len(body.prefix) : body.prefix[i] # " "
    THEN [status |-> StatusBadRequest, entity |-> <<>>]
    ELSE Only({
        IF TrimSpace(input.username) = Empty \/ input.password = Empty
        THEN [status |-> StatusBadRequest, entity |-> <<>>]
        ELSE Only({
            IF got.panic \/ got.err # NoErr
            THEN [status |-> StatusUnauthorized, entity |-> <<>>]
            ELSE IF ~CheckPassword(got.m.password, input.password)
            THEN [status |-> StatusUnauthorized, entity |-> <<>>]
            ELSE [status |-> StatusOK,
                  entity |-> [token |-> SignedString(
                                 GenerateJWT(got.m.username, got.m.role, secret))]] :
            got \in {GetRecordsByID(rows, PtrStruct, "user", ZeroValue("user"),
                                    TrimSpace(input.username))}}) :
        input \in {Decode([username |-> Empty, password |-> Empty], body.obj)}})

\* part_004 holds AuthController twice. In the first, handleRenewToken
\* takes the identity AuthMiddleware put in the request context and signs a
\* new token for it.
handleRenewToken(ctx, secret) ==
    IF ctx.username = "" \/ ctx.role = ""
    THEN [status |-> StatusUnauthorized, entity |-> <<>>]
    ELSE [status |-> StatusOK,
          entity |-> [token |-> SignedString(
                         GenerateJWT(<<ctx.username>>, <<ctx.role>>, secret))]]

\* The age past which the second handleRenewToken refuses a token, in days.
RenewalAgeLimit == 7

\* jwt.ParseWithClaims with a key function that returns the secret for
\* every signing method: the signature verifies for an HMAC method with
\* this secret (the other methods refuse a key of bytes), and the exp claim
\* must not lie in the past.
ParseWithClaims(tokenString, secret) ==
    IF Len(tokenString) # 1 \/ tokenString[1] \notin DOMAIN Tokens
    THEN [err |-> TRUE, claims |-> <<>>]
    ELSE IF \/ Tokens[tokenString[1]].alg \notin HMACMethods
            \/ Tokens[tokenString[1]].key # secret
            \/ Tokens[tokenString[1]].expired
    THEN [err |-> TRUE, claims |-> <<>>]
    ELSE [err |-> FALSE, claims |-> Tokens[tokenString[1]].claims]

\* In the second, handleRenewToken reads the Authorization header itself,
\* and looks at the age of the token when the token carries an iat claim
\* that is a number.
handleRenewTokenFromHeader(authHeader, secret) ==
    LET refused == [status |-> StatusUnauthorized, entity |-> <<>>]
    IN  IF authHeader = Empty THEN refused
        ELSE IF authHeader[1] \notin {"Bearer ", "bearer "} THEN refused
        ELSE Only({
            IF parsed.err THEN refused
            ELSE IF ~({"username", "role"} \subseteq DOMAIN parsed.claims) THEN refused
            ELSE IF \/ ~parsed.claims.username.str \/ ~parsed.claims.role.str
                    \/ parsed.claims.username.val = "" \/ parsed.claims.role.val = ""
            THEN refused
            ELSE IF /\ "iat" \in DOMAIN parsed.claims
                    /\ ~parsed.claims.iat.str
                    /\ parsed.claims.iat.val > RenewalAgeLimit
            THEN refused
            ELSE [status |-> StatusOK,
                  entity |-> [token |-> SignedString(
                                 GenerateJWT(<<parsed.claims.username.val>>,
                                             <<parsed.claims.role.val>>, secret))]] :
            parsed \in {ParseWithClaims(Tail(authHeader), secret)}})

-----------------------------------------------------------------------------
(* models.RolePermissions, models.ModelMap and routes.SetupRouter          *)

Verbs == {"GET", "POST", "PUT", "PATCH", "DELETE"}

AllResources == {"user", "example1", "example2", "exampleRelational"}

\* ModelMap: the resource names that have a model instance.
ModelMap == AllResources

RolePermissions ==
    [role \in {"anonymous", "user", "admin"} |->
       CASE role = "anonymous" ->
              [GET |-> {}, POST |-> {}, PUT |-> {}, PATCH |-> {}, DELETE |-> {}]
         [] role = "user" ->
              [GET |-> {"example1", "example2", "exampleRelational"},
               POST |-> {}, PUT |-> {}, PATCH |-> {}, DELETE |-> {}]
         [] role = "admin" ->
              [GET |-> AllResources, POST |-> AllResources, PUT |-> AllResources,
               PATCH |-> AllResources, DELETE |-> AllResources]]

\* SetupRouter: the routes registered on the root router for the anonymous
\* role (sub "root", no middleware), then one route per verb and resource on
\* the subrouter that uses AuthMiddleware (sub "auth"), wrapped in
\* RoleMiddleware with the non-anonymous roles that list the resource.
MethodRoles(table, verb, res) ==
    {role \in DOMAIN table \ {"anonymous"} : res \in table[role][verb]}

SetupRouter(table) ==
    LET named == UNION {table[role][v] : role \in DOMAIN table, v \in Verbs}
        anon == IF "anonymous" \in DOMAIN table
                THEN {[sub |-> "root", verb |-> v, res |-> r, roles |-> {}, overwrite |-> v = "PUT"] :
                          <<v, r>> \in {vr \in Verbs \X named :
                                          vr[2] \in table["anonymous"][vr[1]]}}
                ELSE {}
        auth == {[sub |-> "auth", verb |-> vr[1], res |-> vr[2],
                  roles |-> MethodRoles(table, vr[1], vr[2]), overwrite |-> vr[1] = "PUT"] :
                     vr \in {x \in Verbs \X named :
                                MethodRoles(table, x[1], x[2]) # {}}}
    IN  anon \cup auth

\* The routes bound at startup, from the permission table as main leaves it.
Routes == SetupRouter(RolePermissions)

MatchSubrouterFirst(rts, verb, res) ==
    LET root == {r \in rts : r.sub = "root" /\ r.verb = verb /\ r.res = res}
        auth == {r \in rts : r.sub = "auth" /\ r.verb = verb /\ r.res = res}
    IN  IF auth # {} THEN auth ELSE root

\* The route mux picks for a request: routes on the root router were
\* registered first and win over those of the subrouter.
Match(rts, verb, res) ==
    LET root == {r \in rts : r.sub = "root" /\ r.verb = verb /\ r.res = res}
        auth == {r \in rts : r.sub = "auth" /\ r.verb = verb /\ r.res = res}
    IN  IF root # {} THEN root ELSE auth

\* The middleware chain in front of the handler of the matched route.
\* pass says whether the handler is called, authed whether AuthMiddleware
\* called its next handler; status is the answer when the chain refused.
Gate(rts, verb, res, authHeader) ==
    LET found == Match(rts, verb, res)
        route == CHOOSE r \in found : TRUE
        auth  == AuthMiddleware(authHeader, JWTSecret)
    IN  IF found = {}
        THEN [pass |-> FALSE, authed |-> FALSE, status |-> StatusNotFound,
              ctx |-> NoIdentity]
        ELSE IF route.sub = "root"
        THEN [pass |-> TRUE, authed |-> FALSE, status |-> 0, ctx |-> NoIdentity]
        ELSE IF ~auth.pass
        THEN [pass |-> FALSE, authed |-> FALSE, status |-> auth.status,
              ctx |-> NoIdentity]
        ELSE IF ~RoleMiddleware(route.roles, auth.ctx.role)
        THEN [pass |-> FALSE, authed |-> TRUE, status |-> StatusForbidden,
              ctx |-> auth.ctx]
        ELSE [pass |-> TRUE, authed |-> TRUE, status |-> 0, ctx |-> auth.ctx]

\* registerCRUD: the handler bound to a verb. GET by id hands the controller
\* reflect.New(reflect.TypeOf(modelType)), a fresh **T; the list handler a
\* fresh slice; every other handler the ModelMap instance itself. item says
\* whether the path carries an {id}.
registerCRUD(verb, res, item, rows, m, id, body, queryVals) ==
    CASE verb = "GET" /\ ~item -> GetAll(rows, res, m, queryVals)
      [] verb = "GET" /\ item ->
           [GetByID(rows, PtrPtr, res, ZeroValue(res), id) EXCEPT !.m = m]
      [] verb = "POST"   -> Create(rows, res, m, body, FALSE)
      [] verb = "PUT"    -> Create(rows, res, m, body, TRUE)
      [] verb = "PATCH"  -> Update(rows, res, m, id, body)
      [] verb = "DELETE" -> Delete(rows, res, m, id)

\* registerCRUD for a resource ModelMap has no entry for: modelType is nil.
\* reflect.TypeOf(nil).Elem(), reflect.New(nil) and getJSONPrimaryKeys(nil)
\* panic; the bulk path of Create finds no pointer; Decode(nil) fails.
registerCRUDNil(verb, item, body) ==
    CASE verb = "GET" -> Panicked({}, <<>>)
      [] verb \in {"POST", "PUT"} ->
           IF ScanFirstByte(body).panic THEN Panicked({}, <<>>)
           ELSE IF ScanFirstByte(body).first = "["
           THEN Reply(StatusInternalServerError, <<>>,
                      <<"Model", "must", "be", "a", "pointer">>, {}, <<>>)
           ELSE Reply(StatusBadRequest, <<>>, <<"Invalid", "JSON", "object">>, {}, <<>>)
      [] verb = "PATCH" ->
           Reply(StatusBadRequest, <<>>, <<"invalid", "JSON">>, {}, <<>>)
      [] verb = "DELETE" -> Panicked({}, <<>>)

-----------------------------------------------------------------------------
(* Requests handled one at a time                                          *)

\* A chain whose middleware writes its refusal and calls the handler all the
\* same.
AnswerAndCallNext(req, gate, reply) ==
    [store |-> [store EXCEPT ![req.res] = reply.rows],
     inst  |-> [inst EXCEPT ![req.res] = reply.m],
     last  |-> [req |-> req, authed |-> gate.authed, invoked |-> TRUE,
                ctx |-> gate.ctx,
                status |-> IF gate.pass THEN reply.status ELSE gate.status,
                panic |-> reply.panic, entity |-> reply.entity,
                err |-> reply.err]]

\* The answer to a request and the state it leaves: when the middleware
\* chain lets it through, those of the handler; otherwise the refusal of the
\* chain and the state as it was.
Answer(req, gate, reply) ==
    IF gate.pass
    THEN [store |-> [store EXCEPT ![req.res] = reply.rows],
          inst  |-> [inst EXCEPT ![req.res] = reply.m],
          last  |-> [req |-> req, authed |-> gate.authed, invoked |-> TRUE,
                     ctx |-> gate.ctx, status |-> reply.status,
                     panic |-> reply.panic, entity |-> reply.entity,
                     err |-> reply.err]]
    ELSE [store |-> store, inst |-> inst,
          last  |-> [req |-> req, authed |-> gate.authed, invoked |-> FALSE,
                     ctx |-> gate.ctx, status |-> gate.status, panic |-> FALSE,
                     entity |-> <<>>, err |-> NoErr]]

\* A request as the server receives it.
Request(verb, res, item, id, authHeader, body, queryVals) ==
    [verb |-> verb, res |-> res, item |-> item, id |-> id,
     hdr |-> authHeader, body |-> body, query |-> queryVals]

\* The requests, each from arrival to response: the middleware chain of its
\* route, then the handler registered for its verb.

\* GET /{resource}
ListRequest(hdr, res, queryVals) ==
    \E gate \in {Gate(routes, "GET", res, hdr)} :
    \E reply \in {registerCRUD("GET", res, FALSE, store[res], inst[res], Empty, NoBody, queryVals)} :
    \E out \in {Answer(Request("GET", res, FALSE, Empty, hdr, NoBody, queryVals), gate, reply)} :
        /\ store' = out.store /\ inst' = out.inst /\ last' = out.last
        /\ UNCHANGED <<flight, perms, routes, boot>>

\* GET /{resource}/{id}
GetRequest(hdr, res, id) ==
    \E gate \in {Gate(routes, "GET", res, hdr)} :
    \E reply \in {registerCRUD("GET", res, TRUE, store[res], inst[res], id, NoBody, NoQuery)} :
    \E out \in {Answer(Request("GET", res, TRUE, id, hdr, NoBody, NoQuery), gate, reply)} :
        /\ store' = out.store /\ inst' = out.inst /\ last' = out.last
        /\ UNCHANGED <<flight, perms, routes, boot>>

\* POST /{resource}
PostRequest(hdr, res, body) ==
    \E gate \in {Gate(routes, "POST", res, hdr)} :
    \E reply \in {registerCRUD("POST", res, FALSE, store[res], inst[res], Empty, body, NoQuery)} :
    \E out \in {Answer(Request("POST", res, FALSE, Empty, hdr, body, NoQuery), gate, reply)} :
        /\ store' = out.store /\ inst' = out.inst /\ last' = out.last
        /\ UNCHANGED <<flight, perms, routes, boot>>

\* PUT /{resource}
PutRequest(hdr, res, body) ==
    \E gate \in {Gate(routes, "PUT", res, hdr)} :
    \E reply \in {registerCRUD("PUT", res, FALSE, store[res], inst[res], Empty, body, NoQuery)} :
    \E out \in {Answer(Request("PUT", res, FALSE, Empty, hdr, body, NoQuery), gate, reply)} :
        /\ store' = out.store /\ inst' = out.inst /\ last' = out.last
        /\ UNCHANGED <<flight, perms, routes, boot>>

\* PATCH /{resource}/{id}
PatchRequest(hdr, res, id, body) ==
    \E gate \in {Gate(routes, "PATCH", res, hdr)} :
    \E reply \in {registerCRUD("PATCH", res, TRUE, store[res], inst[res], id, body, NoQuery)} :
    \E out \in {Answer(Request("PATCH", res, TRUE, id, hdr, body, NoQuery), gate, reply)} :
        /\ store' = out.store /\ inst' = out.inst /\ last' = out.last
        /\ UNCHANGED <<flight, perms, routes, boot>>

\* DELETE /{resource}/{id}
DeleteRequest(hdr, res, id) ==
    \E gate \in {Gate(routes, "DELETE", res, hdr)} :
    \E reply \in {registerCRUD("DELETE", res, TRUE, store[res], inst[res], id, NoBody, NoQuery)} :
    \E out \in {Answer(Request("DELETE", res, TRUE, id, hdr, NoBody, NoQuery), gate, reply)} :
        /\ store' = out.store /\ inst' = out.inst /\ last' = out.last
        /\ UNCHANGED <<flight, perms, routes, boot>>

\* A request that names a resource ModelMap has no entry for. item says
\* whether the path carries an {id}.
UnregisteredRequest(hdr, verb, item, res, id, body) ==
    /\ res \notin ModelMap
    /\ \E gate \in {Gate(routes, verb, res, hdr)} :
       \E reply \in {registerCRUDNil(verb, item, body)} :
          last' = [req |-> Request(verb, res, item, id, hdr, body, NoQuery),
                   authed |-> gate.authed, invoked |-> gate.pass, ctx |-> gate.ctx,
                   status |-> IF gate.pass THEN reply.status ELSE gate.status,
                   panic |-> gate.pass /\ reply.panic, entity |-> <<>>,
                   err |-> IF gate.pass THEN reply.err ELSE NoErr]
    /\ UNCHANGED <<store, inst, flight, perms, routes, boot>>

\* Code that changes models.RolePermissions while the server runs: the
\* resource is added to or taken from the slice of a role and verb. The
\* routes are those SetupRouter registered; nothing registers them anew.
ChangePermissions(role, verb, res, granted) ==
    /\ perms' = [perms EXCEPT ![role][verb] =
                    IF granted THEN @ \cup {res} ELSE @ \ {res}]
    /\ perms' # perms
    /\ UNCHANGED <<store, inst, last, flight, routes, boot>>

\* POST /login: registered on the root router, no middleware in front.
LoginRequest(body) ==
    \E reply \in {handleLogin(store["user"], body, JWTSecret)} :
        /\ last' = [req |-> Request("POST", "login", FALSE, Empty, Empty, body, NoQuery),
                    authed |-> FALSE, invoked |-> TRUE, ctx |-> NoIdentity,
                    status |-> reply.status, panic |-> FALSE,
                    entity |-> reply.entity, err |-> NoErr]
        /\ UNCHANGED <<store, inst, flight, perms, routes, boot>>

\* PUT /login as routes.go registers it: on the subrouter that uses
\* AuthMiddleware, for AuthController.Login, which hands a PUT to
\* handleRenewToken. (The SetupRouter that calls registerCRUD registers
\* /login for POST alone.)
RenewAnswer(hdr, auth, reply) ==
    [req |-> Request("PUT", "login", FALSE, Empty, hdr, NoBody, NoQuery),
     authed |-> auth.pass, invoked |-> auth.pass, ctx |-> auth.ctx,
     status |-> IF auth.pass THEN reply.status ELSE auth.status,
     panic |-> FALSE,
     entity |-> IF auth.pass THEN reply.entity ELSE <<>>, err |-> NoErr]

RenewRequest(hdr) ==
    \E auth \in {AuthMiddleware(hdr, JWTSecret)} :
    \E reply \in {handleRenewToken(auth.ctx, JWTSecret)} :
        /\ last' = RenewAnswer(hdr, auth, reply)
        /\ UNCHANGED <<store, inst, flight, perms, routes, boot>>

\* The same request with the second handleRenewToken behind the middleware.
RenewRequestFromHeader(hdr) ==
    \E auth \in {AuthMiddleware(hdr, JWTSecret)} :
    \E reply \in {handleRenewTokenFromHeader(hdr, JWTSecret)} :
        /\ last' = RenewAnswer(hdr, auth, reply)
        /\ UNCHANGED <<store, inst, flight, perms, routes, boot>>

-----------------------------------------------------------------------------
(* Two Create requests in flight at once                                   *)

Workers == {"w1", "w2"}
Idle ==
    [pc |-> "idle", body |-> NoBody, status |-> 0, entity |-> <<>>,
     query |-> NoQuery, total |-> 0]

\* POST /example1 arrives with an administrator's token and a well-formed
\* object; the server runs its handler on a goroutine of its own.
Arrive(w, body) ==
    /\ flight[w].pc = "idle"
    /\ Gate(routes, "POST", "example1", <<"Bearer ", "tAdmin">>).pass
    /\ ScanFirstByte(body).first = "{" /\ body.ok
    /\ flight' = [flight EXCEPT ![w] = [@ EXCEPT !.pc = "decode", !.body = body]]
    /\ UNCHANGED <<store, inst, last, perms, routes, boot>>

\* Step 6 of Create: the body is decoded into the ModelMap instance.
DecodeStep(w) ==
    /\ flight[w].pc = "decode"
    /\ inst' = [inst EXCEPT !["example1"] = Decode(@, flight[w].body.obj)]
    /\ flight' = [flight EXCEPT ![w] = [@ EXCEPT !.pc = "insert"]]
    /\ UNCHANGED <<store, last, perms, routes, boot>>

\* Step 7 of Create: the instance, as it is now, is stored.
InsertStep(w) ==
    /\ flight[w].pc = "insert"
    /\ \E reply \in {CreateDecoded(store["example1"], "example1", inst["example1"], FALSE)} :
          /\ store' = [store EXCEPT !["example1"] = reply.rows]
          /\ inst' = [inst EXCEPT !["example1"] = reply.m]
          /\ flight' = [flight EXCEPT ![w] =
                           [@ EXCEPT !.pc = "respond", !.status = reply.status]]
    /\ UNCHANGED <<last, perms, routes, boot>>

\* Step 8 of Create: on success the instance, as it is now, is the response.
RespondStep(w) ==
    /\ flight[w].pc = "respond"
    /\ flight' = [flight EXCEPT ![w] =
                     [@ EXCEPT !.pc = "done",
                               !.entity = IF flight[w].status = StatusCreated
                                          THEN inst["example1"] ELSE <<>>]]
    /\ UNCHANGED <<store, inst, last, perms, routes, boot>>

-----------------------------------------------------------------------------
(* Two Update requests in flight at once                                   *)

\* The {id} the two requests name.
UpdateID == <<"a">>

\* PATCH /example1/a arrives with an administrator's token and a well-formed
\* object, while the table holds a row with that key.
UpdateArrive(w, body) ==
    /\ flight[w].pc = "idle"
    /\ Gate(routes, "PATCH", "example1", <<"Bearer ", "tAdmin">>).pass
    /\ body.ok /\ body.open = "{" /\ body.prefix = Empty
    /\ RowsWithKey(store["example1"], "example1", Split(UpdateID)) # {}
    /\ flight' = [flight EXCEPT ![w] = [@ EXCEPT !.pc = "patch-decode", !.body = body]]
    /\ UNCHANGED <<store, inst, last, perms, routes, boot>>

\* Update: the body is decoded into the ModelMap instance.
UpdateDecodeStep(w) ==
    /\ flight[w].pc = "patch-decode"
    /\ inst' = [inst EXCEPT !["example1"] = Decode(@, flight[w].body.obj)]
    /\ flight' = [flight EXCEPT ![w] = [@ EXCEPT !.pc = "patch-first"]]
    /\ UNCHANGED <<store, last, perms, routes, boot>>

\* UpdateRecords: query.First(model) reads the row into the instance; the
\* instance, as it is now, adds its primary key to the WHERE.
UpdateFirstStep(w) ==
    /\ flight[w].pc = "patch-first"
    /\ \E found \in {gormFirst(store["example1"], "example1",
                                getJSONPrimaryKeys("example1"), Split(UpdateID),
                                inst["example1"])} :
          /\ inst' = [inst EXCEPT !["example1"] = found.m]
          /\ flight' = [flight EXCEPT ![w] =
                IF found.err = NoErr THEN [@ EXCEPT !.pc = "patch-save"]
                ELSE [@ EXCEPT !.pc = "patch-respond",
                               !.status =
                                  IF Contains(found.err, <<"record", "not", "found">>)
                                  THEN StatusNotFound
                                  ELSE StatusInternalServerError]]
    /\ UNCHANGED <<store, last, perms, routes, boot>>

\* UpdateRecords: DB.Save(model) writes the instance, as it is now.
UpdateSaveStep(w) ==
    /\ flight[w].pc = "patch-save"
    /\ \E saved \in {gormSave(store["example1"], "example1", inst["example1"])} :
          /\ store' = [store EXCEPT !["example1"] = saved.rows]
          /\ flight' = [flight EXCEPT ![w] =
                [@ EXCEPT !.pc = "patch-respond",
                          !.status = IF saved.err = NoErr THEN StatusOK
                                     ELSE StatusInternalServerError]]
    /\ UNCHANGED <<inst, last, perms, routes, boot>>

\* Update: on success the instance, as it is now, is the response.
UpdateRespondStep(w) ==
    /\ flight[w].pc = "patch-respond"
    /\ flight' = [flight EXCEPT ![w] =
                     [@ EXCEPT !.pc = "done",
                               !.entity = IF flight[w].status = StatusOK
                                          THEN inst["example1"] ELSE <<>>]]
    /\ UNCHANGED <<store, inst, last, perms, routes, boot>>

-----------------------------------------------------------------------------
(* GetAll in flight while the table is written                             *)

\* GET /example1 arrives with an administrator's token.
ListArrive(w, queryVals) ==
    /\ flight[w].pc = "idle"
    /\ Gate(routes, "GET", "example1", <<"Bearer ", "tAdmin">>).pass
    /\ flight' = [flight EXCEPT ![w] = [@ EXCEPT !.pc = "count", !.query = queryVals]]
    /\ UNCHANGED <<store, inst, last, perms, routes, boot>>

\* Step 3 of GetAll: the count query, on the rows as they are now.
CountStep(w) ==
    /\ flight[w].pc = "count"
    /\ \E counted \in {applyFilters(store["example1"], "example1", flight[w].query)} :
          flight' = [flight EXCEPT ![w] =
              IF counted.err # NoErr
              THEN [@ EXCEPT !.pc = "done", !.status = StatusInternalServerError]
              ELSE [@ EXCEPT !.pc = "find", !.total = Cardinality(counted.rows)]]
    /\ UNCHANGED <<store, inst, last, perms, routes, boot>>

\* Steps 4 to 7 of GetAll: the data query, on the rows as they are now, and
\* the envelope with the total of the count.
FindStep(w) ==
    /\ flight[w].pc = "find"
    /\ \E found \in {applyFilters(store["example1"], "example1", flight[w].query)} :
       \E order \in {applySort(flight[w].query)} :
          flight' = [flight EXCEPT ![w] =
              IF found.err # NoErr
                 \/ \E i \in 1..Len(order) : ~IsColumn("example1", order[i].field)
              THEN [@ EXCEPT !.pc = "done", !.status = StatusInternalServerError]
              ELSE [@ EXCEPT !.pc = "done", !.status = StatusOK,
                             !.entity =
                                GetAllPage(store["example1"], "example1",
                                           inst["example1"], flight[w].query,
                                           PageParam(flight[w].query),
                                           PerPageParam(flight[w].query),
                                           flight[w].total, found.rows,
                                           order).entity]]
    /\ UNCHANGED <<store, inst, last, perms, routes, boot>>

-----------------------------------------------------------------------------
(* The inputs of the model                                                 *)

\* Values of the key field and of the other field of an example1 row.
KeyValues   == {<<"a">>, <<"b">>}
OtherValues == {<<"x">>, <<"y">>}

\* The JSON objects a body for example1 may hold: each field given or not.
FullObjects ==
    {[field1 |-> k, field2 |-> v] : k \in KeyValues, v \in OtherValues}
Example1Objects ==
    FullObjects
        \cup {[field1 |-> k] : k \in KeyValues}
        \cup {[field2 |-> v] : v \in OtherValues}
        \cup {[f \in {} |-> Empty]}

\* Bodies for example1: every object above and a body that is not JSON.
Bodies == {ObjectBody(o) : o \in Example1Objects} \cup {MalformedBody}

\* The {id} of a path that names an example1 key.
Ids == {<<k[1]>> : k \in KeyValues}

\* The {id} of a path with n segments: a, a-b, a-b-a, ...
MaxSegments == 3
RECURSIVE IdOf(_)
IdOf(n) ==
    IF n = 1 THEN <<"a">>
    ELSE IdOf(n - 1) \o <<Hyphen, IF n % 2 = 0 THEN "b" ELSE "a">>

\* One body for the requests whose body is not what is examined.
OneBody == ObjectBody([field1 |-> <<"a">>, field2 |-> <<"x">>])

\* Authorization headers: none, "Bearer " before every token, a token alone,
\* another scheme, the scheme in lower case, the scheme twice, the scheme
\* and no token.
AdminHeader == <<"Bearer ", "tAdmin">>
Headers ==
    {Empty, <<"Bearer ">>, <<"Basic ", "tAdmin">>, <<"bearer ", "tAdmin">>,
     <<"Bearer ", "Bearer ", "tAdmin">>}
        \cup {<<"Bearer ", t>> : t \in DOMAIN Tokens}
        \cup {<<t>> : t \in {"tAdmin", "tUser", "tExpired", "tForged"}}

NoRequest ==
    [req |-> [verb |-> "", res |-> "", item |-> FALSE, id |-> Empty,
              hdr |-> Empty, body |-> NoBody, query |-> NoQuery],
     authed |-> FALSE, invoked |-> FALSE, ctx |-> NoIdentity, status |-> 0,
     panic |-> FALSE, entity |-> <<>>, err |-> NoErr]

\* After main: empty example tables, the bootstrap admin registered, the
\* ModelMap instances zero.
Init ==
    /\ store = [res \in Resources |->
                  IF res = "user"
                  THEN {BootstrapAdmin}
                  ELSE {}]
    /\ inst = [res \in Resources |-> ZeroValue(res)]
    /\ last = NoRequest
    /\ flight = [w \in Workers |-> Idle]
    /\ perms = RolePermissions
    /\ routes = SetupRouter(perms)
    /\ boot = Connected

\* Requests of an administrator on example1, one at a time.
Next ==
    \/ ListRequest(AdminHeader, "example1", NoQuery)
    \/ \E id \in Ids : GetRequest(AdminHeader, "example1", id)
    \/ \E body \in Bodies : PostRequest(AdminHeader, "example1", body)
    \/ \E body \in Bodies : PutRequest(AdminHeader, "example1", body)
    \/ \E id \in Ids : \E body \in Bodies : PatchRequest(AdminHeader, "example1", id, body)
    \/ \E id \in Ids : DeleteRequest(AdminHeader, "example1", id)

Spec == Init /\ [][Next]_vars

\* Requests of an administrator by id on every resource, the id with one
\* segment or more, and creations that give example1 rows to find.
NextKeys ==
    \/ \E res \in Resources : \E n \in 1..MaxSegments :
           GetRequest(AdminHeader, res, IdOf(n))
    \/ \E res \in Resources : \E n \in 1..MaxSegments :
           PatchRequest(AdminHeader, res, IdOf(n), OneBody)
    \/ \E res \in Resources : \E n \in 1..MaxSegments :
           DeleteRequest(AdminHeader, res, IdOf(n))
    \/ \E o \in FullObjects : PostRequest(AdminHeader, "example1", ObjectBody(o))

SpecKeys == Init /\ [][NextKeys]_vars

\* Requests under every Authorization header.
NextAuth ==
    \/ \E hdr \in Headers : \E res \in Resources : ListRequest(hdr, res, NoQuery)
    \/ \E hdr \in Headers : GetRequest(hdr, "example1", <<"a">>)
    \/ \E hdr \in Headers : PostRequest(hdr, "example1", OneBody)
    \/ \E hdr \in Headers : PutRequest(hdr, "example1", OneBody)
    \/ \E hdr \in Headers : PatchRequest(hdr, "example1", <<"a">>, OneBody)
    \/ \E hdr \in Headers : DeleteRequest(hdr, "example1", <<"a">>)

SpecAuth == Init /\ [][NextAuth]_vars

\* Two POST /example1 requests, their steps interleaved.
NextConc ==
    \/ \E w \in Workers : \E o \in FullObjects : Arrive(w, ObjectBody(o))
    \/ \E w \in Workers : DecodeStep(w)
    \/ \E w \in Workers : InsertStep(w)
    \/ \E w \in Workers : RespondStep(w)

SpecConc == Init /\ [][NextConc]_vars

\* The rows listed: three keys, two of them with the same other value.
ListObjects ==
    {[field1 |-> <<"a">>, field2 |-> <<"x">>],
     [field1 |-> <<"b">>, field2 |-> <<"x">>],
     [field1 |-> <<"c">>, field2 |-> <<"y">>]}

\* Values of the page parameter and of the page_size parameter: a number
\* below, at and beyond the pages there are, a number with its sign, the
\* largest int, the number after it, and texts that Atoi or the p > 0 test
\* refuses.
PageTexts ==
    {<<"1">>, <<"2">>, <<"3">>, <<"+", "2">>, <<"0">>, <<"-", "1">>, <<"x">>,
     Itoa(MaxInt), Itoa(MaxInt + 1)}
SizeTexts ==
    {<<"1">>, <<"2">>, <<"0">>, <<"-", "2">>, <<"x">>, Itoa(MaxInt),
     Itoa(MaxInt + 1)}

\* The paging part of a query: each of the two parameters given or not.
PagingQueries ==
    {NoQuery}
        \cup {<<"page">> :> <<p>> : p \in PageTexts}
        \cup {<<"page_size">> :> <<z>> : z \in SizeTexts}
        \cup {(<<"page">> :> <<p>>) @@ (<<"page_size">> :> <<z>>) :
                 p \in PageTexts, z \in SizeTexts}

FilterKey(field, operator) == <<"filter[", field, "][", operator, "]">>

\* The filtering part of a query: one expression, several on different
\* keys, one key given twice, an operator and a column that do not exist,
\* a key that is not of the filter form, and a sort.
FilterQueries ==
    {FilterKey("field2", "eq") :> << <<"x">> >>,
     FilterKey("field2", "eq") :> << <<"y">> >>,
     FilterKey("field2", "eq") :> << <<"x">>, <<"y">> >>,
     FilterKey("field1", "in") :> << <<"a", ",", "c">> >>,
     FilterKey("field1", "in") :> << <<"b">> >>,
     (FilterKey("field2", "eq") :> << <<"x">> >>)
         @@ (FilterKey("field1", "in") :> << <<"a", ",", "c">> >>),
     (FilterKey("field2", "eq") :> << <<"x">> >>)
         @@ (FilterKey("field1", "gt") :> << <<"a">> >>),
     (FilterKey("field1", "ne") :> << <<"a">> >>)
         @@ (FilterKey("field1", "nin") :> << <<"b">> >>),
     FilterKey("field2", "contains") :> << <<"y">> >>,
     FilterKey("field2", "isnull") :> << <<"TRUE">> >>,
     FilterKey("field2", "like") :> << <<"x">> >>,
     FilterKey("field3", "like") :> << <<"x">> >>,
     (FilterKey("field2", "like") :> << <<"y">> >>)
         @@ (FilterKey("field1", "in") :> << <<"a", ",", "c">> >>),
     FilterKey("field1", "neq") :> << <<"a">> >>,
     FilterKey("field3", "eq") :> << <<"x">> >>,
     <<"filter[", "field2", "]">> :> << <<"x">> >>,
     <<"field2">> :> << <<"x">> >>,
     <<"sort">> :> << <<"-", "field2">> >>,
     <<"sort">> :> << <<"field2", ",", " ", "-", "field1">> >>,
     <<"sort">> :> << <<"field3">> >>}

\* The queries of the model: paging alone, filtering alone, and filtering
\* with a page size that makes pages.
Queries ==
    PagingQueries \cup FilterQueries
        \cup {f @@ (<<"page_size">> :> << <<"1">> >>) : f \in FilterQueries}
        \cup {f @@ (<<"page">> :> << <<"2">> >>) @@ (<<"page_size">> :> << <<"1">> >>) :
                 f \in FilterQueries}

\* An administrator fills example1 and lists it under every query.
NextList ==
    \/ \E o \in ListObjects : PostRequest(AdminHeader, "example1", ObjectBody(o))
    \/ \E id \in Ids : DeleteRequest(AdminHeader, "example1", id)
    \/ \E q \in Queries : ListRequest(AdminHeader, "example1", q)

SpecList == Init /\ [][NextList]_vars

\* The permission table with example1 opened to the anonymous role for
\* reading and creating: AnonymousGetResources and AnonymousPostResources
\* name it.
OpenTable ==
    [RolePermissions EXCEPT !["anonymous"].GET = {"example1"},
                            !["anonymous"].POST = {"example1"}]

\* After main, with that table.
InitOpen ==
    /\ store = [res \in Resources |->
                  IF res = "user"
                  THEN {BootstrapAdmin}
                  ELSE {}]
    /\ inst = [res \in Resources |-> ZeroValue(res)]
    /\ last = NoRequest
    /\ flight = [w \in Workers |-> Idle]
    /\ perms = OpenTable
    /\ routes = SetupRouter(perms)
    /\ boot = Connected

\* Headers of a caller without credentials, with credentials that do not
\* verify, and with credentials of each role.
OpenHeaders ==
    {Empty, <<"Bearer ">>, <<"Basic ", "tAdmin">>, <<"Bearer ", "tForged">>,
     <<"Bearer ", "tExpired">>, <<"Bearer ", "tUser">>, AdminHeader}

\* Requests on example1 under those headers.
NextOpen ==
    \/ \E hdr \in OpenHeaders : ListRequest(hdr, "example1", NoQuery)
    \/ \E hdr \in OpenHeaders : \E id \in Ids : GetRequest(hdr, "example1", id)
    \/ \E hdr \in OpenHeaders : \E o \in FullObjects :
           PostRequest(hdr, "example1", ObjectBody(o))
    \/ \E hdr \in OpenHeaders : PutRequest(hdr, "example1", OneBody)
    \/ \E hdr \in OpenHeaders : \E id \in Ids :
           PatchRequest(hdr, "example1", id, OneBody)
    \/ \E hdr \in OpenHeaders : \E id \in Ids : DeleteRequest(hdr, "example1", id)

SpecOpen == InitOpen /\ [][NextOpen]_vars

\* Bodies of POST /login: the administrator's credentials, as they are and
\* with a blank before the name, a wrong password, an unknown user, no
\* password, and a body that is not JSON.
AdminLogin == ObjectBody([username |-> <<"admin">>, password |-> AdminPassword])
LoginBodies ==
    {AdminLogin,
     ObjectBody([username |-> <<" ", "admin">>, password |-> AdminPassword]),
     ObjectBody([username |-> <<"admin">>, password |-> <<"wrong">>]),
     ObjectBody([username |-> <<"nobody">>, password |-> AdminPassword]),
     ObjectBody([username |-> <<"admin">>]),
     MalformedBody}

\* The rows a client creates after logging in.
TourObjects ==
    {[field1 |-> k, field2 |-> v] : k \in KeyValues, v \in {<<"b">>, <<"x">>}}

\* A client logs in, then creates, reads and deletes example1 rows, with
\* the token of the administrator or with none.
NextTour ==
    \/ \E body \in LoginBodies : LoginRequest(body)
    \/ \E hdr \in {AdminHeader, Empty} : \E o \in TourObjects :
           PostRequest(hdr, "example1", ObjectBody(o))
    \/ \E hdr \in {AdminHeader, Empty} : \E id \in Ids :
           GetRequest(hdr, "example1", id)
    \/ \E hdr \in {AdminHeader, Empty} : \E id \in Ids :
           DeleteRequest(hdr, "example1", id)

SpecTour == Init /\ [][NextTour]_vars

\* The permission table with a resource added to the administrator's
\* slices that ModelMap was not given a model for.
GhostTable ==
    [RolePermissions EXCEPT
        !["admin"] = [v \in Verbs |-> RolePermissions["admin"][v] \cup {"ghost"}]]

\* After main, with the table as shipped or with that table.
InitUnregistered ==
    /\ store = [res \in Resources |-> IF res = "user" THEN {BootstrapAdmin} ELSE {}]
    /\ inst = [res \in Resources |-> ZeroValue(res)]
    /\ last = NoRequest
    /\ flight = [w \in Workers |-> Idle]
    /\ perms \in {RolePermissions, GhostTable}
    /\ routes = SetupRouter(perms)
    /\ boot = Connected

\* Names no model is registered under: one the table may list, one it
\* never lists.
Unregistered == {"ghost", "nothing"}

\* Bodies with each first significant byte.
ArrayBody(list) ==
    [prefix |-> <<>>, open |-> "[", ok |-> TRUE, obj |-> <<>>, list |-> list]
FirstByteBodies ==
    {OneBody, MalformedBody, NoBody, ArrayBody(<< [field1 |-> <<"a">>] >>),
     [OneBody EXCEPT !.prefix = <<" ">>]}

\* Requests on those names with an administrator's token and with none,
\* and creations on example1.
NextUnregistered ==
    \/ \E hdr \in {AdminHeader, Empty} :
       \E res \in Unregistered : \E item \in BOOLEAN :
           UnregisteredRequest(hdr, "GET", item, res, IF item THEN <<"a">> ELSE Empty, NoBody)
    \/ \E hdr \in {AdminHeader, Empty} :
       \E res \in Unregistered : \E verb \in {"POST", "PUT"} : \E body \in FirstByteBodies :
           UnregisteredRequest(hdr, verb, FALSE, res, Empty, body)
    \/ \E hdr \in {AdminHeader, Empty} :
       \E res \in Unregistered : \E body \in FirstByteBodies :
           UnregisteredRequest(hdr, "PATCH", TRUE, res, <<"a">>, body)
    \/ \E hdr \in {AdminHeader, Empty} :
       \E res \in Unregistered :
           UnregisteredRequest(hdr, "DELETE", TRUE, res, <<"a">>, NoBody)
    \/ \E k \in KeyValues :
           PostRequest(AdminHeader, "example1",
                       ObjectBody([field1 |-> k, field2 |-> <<"x">>]))

SpecUnregistered == InitUnregistered /\ [][NextUnregistered]_vars

\* The permission table changes while requests on example1 come in, with
\* an administrator's token, a user's and none.
NextRuntime ==
    \/ \E role \in {"anonymous", "user"} : \E verb \in {"GET", "POST"} :
       \E granted \in BOOLEAN :
           ChangePermissions(role, verb, "example1", granted)
    \/ \E hdr \in {AdminHeader, <<"Bearer ", "tUser">>, Empty} :
           ListRequest(hdr, "example1", NoQuery)
    \/ \E hdr \in {AdminHeader, <<"Bearer ", "tUser">>, Empty} : \E k \in KeyValues :
           PostRequest(hdr, "example1", ObjectBody([field1 |-> k, field2 |-> <<"x">>]))

SpecRuntime == Init /\ [][NextRuntime]_vars

\* Bodies of every shape for Create: arrays of one and of two objects
\* (with the same key twice among them), an empty array, an array that is
\* not JSON, an object, no body, and the array and the object with a blank
\* or another byte in front.
BatchObjects ==
    {[field1 |-> <<"a">>, field2 |-> <<"x">>],
     [field1 |-> <<"a">>, field2 |-> <<"y">>],
     [field1 |-> <<"b">>, field2 |-> <<"x">>]}
BatchBodies ==
    {ArrayBody(<<o>>) : o \in BatchObjects}
        \cup {ArrayBody(<<o, p>>) : o \in BatchObjects, p \in BatchObjects}
CreateBodies ==
    BatchBodies
        \cup {ArrayBody(<<>>), [ArrayBody(<<>>) EXCEPT !.ok = FALSE],
              OneBody, MalformedBody, NoBody,
              [NoBody EXCEPT !.prefix = <<"x">>],
              [OneBody EXCEPT !.prefix = <<" ">>],
              [OneBody EXCEPT !.prefix = <<"x">>],
              [ArrayBody(<< [field1 |-> <<"b">>, field2 |-> <<"y">>] >>)
                   EXCEPT !.prefix = <<" ">>],
              [ArrayBody(<< [field1 |-> <<"b">>, field2 |-> <<"y">>] >>)
                   EXCEPT !.prefix = <<"x">>]}

\* An administrator creates with every body, and deletes.
NextCreate ==
    \/ \E body \in CreateBodies : PostRequest(AdminHeader, "example1", body)
    \/ \E body \in CreateBodies : PutRequest(AdminHeader, "example1", body)
    \/ \E id \in Ids : DeleteRequest(AdminHeader, "example1", id)

SpecCreate == Init /\ [][NextCreate]_vars

\* The bodies of the two Updates: complete objects for the key a, and
\* objects that leave the key out.
UpdateObjects ==
    {[field1 |-> <<"a">>, field2 |-> v] : v \in {<<"y">>, <<"c">>}}
        \cup {[field2 |-> <<"y">>]}

\* An administrator creates rows; two Updates of the row a are in flight.
NextUpdates ==
    \/ \E o \in {[field1 |-> <<"a">>, field2 |-> <<"x">>],
                  [field1 |-> <<"b">>, field2 |-> <<"y">>]} :
           PostRequest(AdminHeader, "example1", ObjectBody(o))
    \/ \E w \in Workers : \E o \in UpdateObjects : UpdateArrive(w, ObjectBody(o))
    \/ \E w \in Workers : UpdateDecodeStep(w)
    \/ \E w \in Workers : UpdateFirstStep(w)
    \/ \E w \in Workers : UpdateSaveStep(w)
    \/ \E w \in Workers : UpdateRespondStep(w)

SpecUpdates == Init /\ [][NextUpdates]_vars

\* The process at start-up, before any table is filled and any route is
\* served: ConnectDB runs against a server in any state.
InitConnect ==
    /\ store = [res \in Resources |-> {}]
    /\ inst = [res \in Resources |-> ZeroValue(res)]
    /\ last = NoRequest
    /\ flight = [w \in Workers |-> Idle]
    /\ perms = RolePermissions
    /\ routes = {}
    /\ boot \in {Started(server) : server \in ServerStates}

ConnectDB == OpenStep \/ SleepStep \/ MigrateStep \/ MigrateRelationalStep

NextConnect ==
    \/ OpenStep
    \/ SleepStep
    \/ MigrateStep
    \/ MigrateRelationalStep
    \/ \E server \in ServerStates : ServerChanges(server)

\* main calls ConnectDB on its one goroutine: a step that can be taken is
\* taken.
SpecConnect == InitConnect /\ [][NextConnect]_vars /\ WF_vars(ConnectDB)

\* Key values without and with the separator of the tokenized id, and the
\* example1 rows made of them.
TokenKeys == {<<"a">>, <<"b">>, <<"a", Hyphen, "b">>}
TokenObjects ==
    {[field1 |-> k, field2 |-> v] : k \in TokenKeys, v \in OtherValues}

\* An administrator creates such rows and asks for them by their tokenized
\* ids.
NextToken ==
    \/ \E o \in TokenObjects : PostRequest(AdminHeader, "example1", ObjectBody(o))
    \/ \E k \in TokenKeys : GetRequest(AdminHeader, "example1", Tokenize(<<k>>))
    \/ \E k \in TokenKeys : \E o \in TokenObjects :
           PatchRequest(AdminHeader, "example1", Tokenize(<<k>>), ObjectBody(o))
    \/ \E k \in TokenKeys : DeleteRequest(AdminHeader, "example1", Tokenize(<<k>>))

SpecToken == Init /\ [][NextToken]_vars

\* The queries of the listing in flight: no parameter, the second page of
\* pages of one row, a filter and a sort on a column that is none.
RaceQueries ==
    {NoQuery,
     (<<"page">> :> << <<"2">> >>) @@ (<<"page_size">> :> << <<"1">> >>),
     FilterKey("field2", "eq") :> << <<"x">> >>,
     FilterKey("field3", "eq") :> << <<"x">> >>,
     <<"sort">> :> << <<"field3">> >>}

\* An administrator creates and deletes example1 rows while a listing is
\* in flight.
NextListRace ==
    \/ \E o \in ListObjects : PostRequest(AdminHeader, "example1", ObjectBody(o))
    \/ \E id \in Ids : DeleteRequest(AdminHeader, "example1", id)
    \/ \E q \in RaceQueries : ListArrive("w1", q)
    \/ CountStep("w1")
    \/ FindStep("w1")

SpecListRace == Init /\ [][NextListRace]_vars

\* The users an administrator creates next to the bootstrap admin.
RenewUsers ==
    {[username |-> <<"w">>, password |-> HashPassword(<<"pw">>), role |-> <<"user">>],
     [username |-> <<"u">>, password |-> <<"pw">>, role |-> <<"user">>]}

\* Clients log in and ask for renewed tokens under every header, while an
\* administrator creates and deletes users.
NextRenew ==
    \/ \E body \in LoginBodies
                       \cup {ObjectBody([username |-> <<"w">>, password |-> <<"pw">>])} :
           LoginRequest(body)
    \/ \E hdr \in Headers : RenewRequest(hdr)
    \/ \E hdr \in Headers : RenewRequestFromHeader(hdr)
    \/ \E u \in RenewUsers : PostRequest(AdminHeader, "user", ObjectBody(u))
    \/ \E id \in {<<"w">>, <<"u">>} : DeleteRequest(AdminHeader, "user", id)

SpecRenew == Init /\ [][NextRenew]_vars

-----------------------------------------------------------------------------
(* What the claims speak of                                                *)

\* The request last answered is by id, and its handler was called.
ByID(verb) == last.invoked /\ last.req.item /\ last.req.verb = verb

\* The key an {id} names, and the rows of a table stored under it.
IdKey(id) == Split(id)
Stored(rows, res, key) == RowsWithKey(rows, res, key)

\* A body is one well-formed object that gives every primary-key field.
GivesKey(res, body) ==
    /\ body.ok /\ body.open = "{" /\ body.prefix = <<>>
    /\ \A i \in 1..Len(getJSONPrimaryKeys(res)) :
           getJSONPrimaryKeys(res)[i] \in DOMAIN body.obj

\* The key such a body gives.
BodyKey(res, body) ==
    [i \in 1..Len(getJSONPrimaryKeys(res)) |-> body.obj[getJSONPrimaryKeys(res)[i]]]

\* A row holds the value the body gives, for every field the body gives.
Reflects(row, body) == \A f \in DOMAIN body.obj : row[f] = body.obj[f]

-----------------------------------------------------------------------------
(* The claims                                                              *)

\* C1: a request by id (GetByID, Update, Delete) whose id splits on '-' into
\* a number of segments other than the number of primary-key fields of the
\* resource is answered 400, and the handler does not panic.
SegmentMismatchIsBadRequest ==
    (/\ last.invoked /\ last.req.item
     /\ Len(Split(last.req.id)) # Len(getJSONPrimaryKeys(last.req.res)))
        => (last.status = StatusBadRequest /\ ~last.panic)

\* C2: a Create with overwrite (PUT) of one object whose key is already
\* stored is answered 201, and the row then stored under the key holds the
\* values of the body.
OverwriteReplacesRow ==
    [][(/\ last'.invoked /\ last'.req.verb = "PUT"
        /\ GivesKey(last'.req.res, last'.req.body)
        /\ Stored(store[last'.req.res], last'.req.res,
                  BodyKey(last'.req.res, last'.req.body)) # {})
          => (/\ last'.status = StatusCreated
              /\ \E row \in store'[last'.req.res] :
                     /\ KeyOf(last'.req.res, row) = BodyKey(last'.req.res, last'.req.body)
                     /\ Reflects(row, last'.req.body))]_vars

\* C3: a Create without overwrite (POST) of one object whose key is already
\* stored is answered 409 and leaves the table as it was.
DuplicateIsConflict ==
    [][(/\ last'.invoked /\ last'.req.verb = "POST"
        /\ GivesKey(last'.req.res, last'.req.body)
        /\ Stored(store[last'.req.res], last'.req.res,
                  BodyKey(last'.req.res, last'.req.body)) # {})
          => (last'.status = StatusConflict /\ store' = store)]_vars

\* C4: after an Update answered 200, the row stored under the key of the
\* path holds, in every field that is no key, the value the body gave.
UpdateStoresBody ==
    (ByID("PATCH") /\ last.status = StatusOK)
        => /\ Stored(store[last.req.res], last.req.res, IdKey(last.req.id)) # {}
           /\ \A row \in Stored(store[last.req.res], last.req.res, IdKey(last.req.id)) :
                  \A f \in DOMAIN last.req.body.obj :
                      (\A i \in 1..Len(getJSONPrimaryKeys(last.req.res)) :
                           getJSONPrimaryKeys(last.req.res)[i] # f)
                          => row[f] = last.req.body.obj[f]

\* C5: a GetByID whose id is the key of a row that a Create stored is
\* answered 200 with that row, field for field.
CreateThenGetRoundTrip ==
    (/\ ByID("GET")
     /\ Stored(store[last.req.res], last.req.res, IdKey(last.req.id)) # {})
        => /\ last.status = StatusOK
           /\ {last.entity} = Stored(store[last.req.res], last.req.res, IdKey(last.req.id))

\* The role is listed for the resource under the verb in the permission
\* table.
Listed(role, verb, res) ==
    role \in DOMAIN RolePermissions /\ res \in RolePermissions[role][verb]

\* C6: of a request that passed authentication, the controller is called
\* when the caller's role is listed for the verb and resource, and otherwise
\* the answer is 403 and the controller is not called; GET /user with a
\* token of role "user" is answered 403.
RoleNotListedIsForbidden ==
    /\ last.authed =>
          IF Listed(last.ctx.role, last.req.verb, last.req.res)
          THEN last.invoked
          ELSE last.status = StatusForbidden /\ ~last.invoked
    /\ (/\ last.req.verb = "GET" /\ last.req.res = "user"
        /\ last.req.hdr = <<"Bearer ", "tUser">>)
          => last.status = StatusForbidden

\* A reader is refused the list of users.
RoleNotListedSeen ==
    /\ last.req.verb = "GET" /\ last.req.res = "user"
    /\ last.authed /\ last.ctx.role = "user"
    /\ last.status = StatusForbidden /\ ~last.invoked

\* The text is one token that verifies: signed with an HMAC method and the
\* server's secret, not expired, its username and role claims non-empty
\* strings.
Verifies(text) ==
    /\ Len(text) = 1 /\ text[1] \in DOMAIN Tokens
    /\ Tokens[text[1]].alg \in HMACMethods
    /\ Tokens[text[1]].key = JWTSecret
    /\ ~Tokens[text[1]].expired
    /\ {"username", "role"} \subseteq DOMAIN Tokens[text[1]].claims
    /\ Tokens[text[1]].claims.username.str /\ Tokens[text[1]].claims.username.val # ""
    /\ Tokens[text[1]].claims.role.str /\ Tokens[text[1]].claims.role.val # ""

\* The identity such a token carries.
IdentityOf(text) ==
    [username |-> Tokens[text[1]].claims.username.val,
     role |-> Tokens[text[1]].claims.role.val]

\* C7: AuthMiddleware calls the next handler exactly when the Authorization
\* header is present and its token (the header without a leading "Bearer ")
\* verifies with non-empty string username and role claims, and then the
\* identity attached is the token's; in every other case the answer is 401
\* and no handler is called.
AuthPassesIffTokenVerifies ==
    last.req.verb # "" =>
        IF last.req.hdr # Empty /\ Verifies(TrimPrefix(last.req.hdr, <<"Bearer ">>))
        THEN /\ last.authed
             /\ last.ctx = IdentityOf(TrimPrefix(last.req.hdr, <<"Bearer ">>))
        ELSE ~last.authed /\ ~last.invoked /\ last.status = StatusUnauthorized

\* A token signed with HS512 passes and attaches its identity.
AuthPassSeen ==
    /\ last.req.hdr = <<"Bearer ", "tGuest">>
    /\ last.authed /\ last.ctx = [username |-> "g", role |-> "guest"]

\* The header has the form "Bearer <token>".
BearerForm(hdr) == Len(hdr) >= 2 /\ hdr[1] = "Bearer "

DeleteAbsentIsNotFound ==
    [][(/\ last'.invoked /\ last'.req.verb = "DELETE"
        /\ Len(IdKey(last'.req.id)) = Len(getJSONPrimaryKeys(last'.req.res)))
          => /\ Stored(store[last'.req.res], last'.req.res, IdKey(last'.req.id)) = {}
                   => /\ last'.status = StatusNotFound /\ ~last'.panic
                      /\ store' = store
             /\ last'.status = StatusOK
                   => Stored(store'[last'.req.res], last'.req.res,
                             IdKey(last'.req.id)) = {}]_vars

\* A Delete is answered 404 while other rows are stored.
DeleteAbsentSeen ==
    /\ ByID("DELETE") /\ last.status = StatusNotFound
    /\ store[last.req.res] # {}
    /\ Stored(store[last.req.res], last.req.res, IdKey(last.req.id)) = {}

\* C10: when two Create requests with distinct keys have both been answered,
\* whatever the order of their steps, both were answered 201 with their own
\* body and the table holds a row equal to each body.
ConcurrentCreatesBothStored ==
    (/\ \A w \in Workers : flight[w].pc = "done"
     /\ flight["w1"].body.obj.field1 # flight["w2"].body.obj.field1)
        => \A w \in Workers :
               /\ flight[w].status = StatusCreated
               /\ flight[w].entity = flight[w].body.obj
               /\ flight[w].body.obj \in store["example1"]

\* The request last answered is a listing, answered with its envelope.
Listed200 ==
    /\ last.invoked /\ last.req.verb = "GET" /\ ~last.req.item
    /\ last.status = StatusOK

\* The least number of pages of size b that hold a items.
Ceil(a, b) == CHOOSE n \in 0..a : n * b >= a /\ (n - 1) * b < a

\* C11: every GetAll envelope holds at most page_size items in data, and
\* its total_pages is the ceiling of total_items / page_size, whatever the
\* number of rows and whatever page size of 1 or more is in effect.
PageCountIsCeiling ==
    Listed200 =>
        /\ last.entity.meta.page_size >= 1
        /\ Len(last.entity.data) <= last.entity.meta.page_size
        /\ last.entity.meta.total_pages =
               Ceil(last.entity.meta.total_items, last.entity.meta.page_size)

\* C12: in every GetAll envelope the prev link is present exactly when
\* current_page > 1, and the next link exactly when current_page is less
\* than total_pages.
PrevNextLinksPresence ==
    Listed200 =>
        /\ last.entity.links.prev # Empty <=> last.entity.meta.current_page > 1
        /\ last.entity.links.next # Empty <=>
               last.entity.meta.current_page < last.entity.meta.total_pages

\* A middle page was listed: both links are there.
MiddlePageSeen ==
    /\ Listed200
    /\ last.entity.meta.current_page = 2 /\ last.entity.meta.total_pages = 3
    /\ last.entity.links.prev # Empty /\ last.entity.links.next # Empty

\* The filter expressions a query string holds: every value given for every
\* key of the form filter[field][operator].
Expressions(queryVals) ==
    UNION {{[field |-> k[2], operator |-> k[4], value |-> queryVals[k][i]] :
               i \in 1..Len(queryVals[k])} :
             k \in {rawKey \in DOMAIN queryVals :
                       Len(rawKey) = 5 /\ rawKey[1] = "filter[" /\ rawKey[3] = "]["
                           /\ rawKey[5] = "]"}}

\* A row satisfies an eq or an in expression.
Satisfies(row, e) ==
    IF e.operator = "eq" THEN row[e.field] = e.value
    ELSE \E i \in 1..Len(SplitOn(e.value, ",")) :
             row[e.field] = SplitOn(e.value, ",")[i]

\* The query filters with eq and in on columns of the resource, and sorts
\* by nothing.
FiltersWithEqIn(res, queryVals) ==
    /\ Expressions(queryVals) # {}
    /\ \A e \in Expressions(queryVals) :
           e.operator \in {"eq", "in"} /\ e.field \in JSONFields(res)
    /\ \A k \in DOMAIN queryVals :
           k \in {<<"page">>, <<"page_size">>} \/ (Len(k) = 5 /\ k[1] = "filter[")

Range(seq) == {seq[i] : i \in 1..Len(seq)}

\* C20: GetAll with eq and in filters selects exactly the stored rows that
\* satisfy every filter expression of the query: total_items counts them,
\* data holds none but them, and all of them when one page takes them all.
FiltersSelectExactly ==
    (/\ last.invoked /\ last.req.verb = "GET" /\ ~last.req.item
     /\ FiltersWithEqIn(last.req.res, last.req.query))
        => LET wanted == {row \in store[last.req.res] :
                            \A e \in Expressions(last.req.query) : Satisfies(row, e)}
           IN  /\ last.status = StatusOK
               /\ last.entity.meta.total_items = Cardinality(wanted)
               /\ Range(last.entity.data) \subseteq wanted
               /\ (last.entity.meta.current_page = 1
                      /\ last.entity.meta.page_size >= Cardinality(wanted))
                     => Range(last.entity.data) = wanted

\* C13: a request for a verb and resource the table grants to the anonymous
\* role reaches the controller whatever its Authorization header: neither
\* AuthMiddleware nor RoleMiddleware runs, and it is not answered 401 or 403.
AnonymousRouteIsOpen ==
    (/\ last.req.verb \in Verbs
     /\ last.req.res \in perms["anonymous"][last.req.verb])
        => /\ last.invoked /\ ~last.authed /\ last.ctx = NoIdentity
           /\ last.status \notin {StatusUnauthorized, StatusForbidden}

\* A caller with no Authorization header created a row.
AnonymousCreateSeen ==
    /\ last.req.verb = "POST" /\ last.req.res \in perms["anonymous"]["POST"]
    /\ last.req.hdr = Empty /\ last.status = StatusCreated

\* The row of the tour, and the requests that read and delete it with the
\* token POST /login issued.
TourRow == [field1 |-> <<"a">>, field2 |-> <<"b">>]
TourGet ==
    Request("GET", "example1", TRUE, <<"a">>, AdminHeader, NoBody, NoQuery)
TourDelete ==
    Request("DELETE", "example1", TRUE, <<"a">>, AdminHeader, NoBody, NoQuery)

\* C14: from a store that holds the bootstrap admin, a login as admin is
\* answered 200 with a token; POST /example1 of the row a/b under that token
\* is answered 201 when no row a is stored; the GET /example1/a that follows
\* is answered 200 with that row; a DELETE /example1/a of the stored row is
\* answered 200 "Deleted successfully"; the GET /example1/a that follows it
\* is answered 404.
EndToEndTour ==
    [][/\ (last'.req.res = "login" /\ last'.req.body = AdminLogin)
            => /\ last'.status = StatusOK
               /\ <<"Bearer ">> \o last'.entity.token = AdminHeader
       /\ (/\ last.req.res = "login" /\ last.status = StatusOK
           /\ last'.req = Request("POST", "example1", FALSE, Empty,
                                  <<"Bearer ">> \o last.entity.token,
                                  ObjectBody(TourRow), NoQuery)
           /\ Stored(store["example1"], "example1", <<<<"a">>>>) = {})
            => last'.status = StatusCreated /\ TourRow \in store'["example1"]
       /\ (/\ last.req.verb = "POST" /\ last.req.body = ObjectBody(TourRow)
           /\ last.status = StatusCreated
           /\ last'.req = TourGet)
            => last'.status = StatusOK /\ last'.entity = TourRow
       /\ (/\ TourRow \in store["example1"]
           /\ last'.req = TourDelete)
            => /\ last'.status = StatusOK
               /\ last'.entity = [message |-> <<"Deleted", "successfully">>]
               /\ TourRow \notin store'["example1"]
       /\ (/\ last.req = TourDelete /\ last.status = StatusOK
           /\ last'.req = TourGet)
            => last'.status = StatusNotFound
      ]_vars

\* C15: an Update with a well-formed id whose key is not stored is answered
\* 404 and leaves the store as it was: no row is created, modified or
\* removed.
UpdateAbsentIsNotFound ==
    [][(/\ last'.invoked /\ last'.req.verb = "PATCH"
        /\ last'.req.body.ok /\ last'.req.body.open = "{"
        /\ Len(IdKey(last'.req.id)) = Len(getJSONPrimaryKeys(last'.req.res))
        /\ Stored(store[last'.req.res], last'.req.res, IdKey(last'.req.id)) = {})
          => /\ last'.status = StatusNotFound /\ ~last'.panic
             /\ store' = store]_vars

\* An Update of a key that is not stored is answered 404 while another row
\* is stored, its body naming the key of that row.
UpdateAbsentSeen ==
    /\ ByID("PATCH") /\ last.status = StatusNotFound
    /\ last.req.body.ok /\ "field1" \in DOMAIN last.req.body.obj
    /\ Stored(store[last.req.res], last.req.res, IdKey(last.req.id)) = {}
    /\ Stored(store[last.req.res], last.req.res, <<last.req.body.obj.field1>>) # {}

\* C16: a request that names a resource ModelMap has no entry for is
\* answered 400, for every verb; the handler does not panic and no other
\* status is written.
UnregisteredIsBadRequest ==
    last.req.res \in Unregistered
        => last.status = StatusBadRequest /\ ~last.panic

\* A permission table lets a request through: it grants the verb and
\* resource to the anonymous role, or to the role of the token the request
\* carries.
Allowed(table, verb, res, hdr) ==
    \/ res \in table["anonymous"][verb]
    \/ /\ Verifies(TrimPrefix(hdr, <<"Bearer ">>))
       /\ \E role \in DOMAIN table \ {"anonymous"} :
              /\ role = IdentityOf(TrimPrefix(hdr, <<"Bearer ">>)).role
              /\ res \in table[role][verb]

\* C17: after RolePermissions was changed at runtime, the router follows
\* the changed table: a request reaches its controller exactly when the
\* table, as it is when the request arrives, lets it through.
RouterFollowsTable ==
    [][(perms' = perms /\ last'.req.verb \in Verbs)
          => (last'.invoked <=>
                 Allowed(perms, last'.req.verb, last'.req.res, last'.req.hdr))]_vars

\* The request answered in this step is a Create with a well-formed array.
BatchCreate ==
    /\ last'.invoked /\ last'.req.verb \in {"POST", "PUT"}
    /\ last'.req.body.open = "[" /\ last'.req.body.ok /\ last'.req.body.prefix = <<>>

\* The key of element i of the array.
ElementKey(res, body, i) == KeyOf(res, Decode(ZeroValue(res), body.list[i]))

\* An element of the array has the key of a stored row or of another
\* element.
BatchHasDuplicate(rows, res, body) ==
    \/ \E i \in 1..Len(body.list) : Stored(rows, res, ElementKey(res, body, i)) # {}
    \/ \E i, j \in 1..Len(body.list) :
          i # j /\ ElementKey(res, body, i) = ElementKey(res, body, j)

\* C18: a batch Create with an element that violates a duplicate key, in the
\* store or within the batch, is answered 409 and stores none of its rows;
\* with overwrite (PUT) as without (POST).
BatchDuplicateIsConflict ==
    [][(BatchCreate /\ BatchHasDuplicate(store[last'.req.res], last'.req.res,
                                         last'.req.body))
          => last'.status = StatusConflict /\ store' = store]_vars

\* The first byte of a body that is not a blank, "" when it has none.
FirstSignificant(body) ==
    LET bytes == body.prefix \o (IF body.open = "" THEN <<>> ELSE <<body.open>>)
        seen  == SelectSeq(bytes, LAMBDA c : c # " ")
    IN  IF Len(seen) = 0 THEN "" ELSE seen[1]

\* The response and the table a path of Create gives are those of the step.
AnsweredAs(reply) ==
    /\ last'.status = reply.status /\ last'.entity = reply.entity
    /\ store'[last'.req.res] = reply.rows

\* C19: Create takes its path from the first byte of the body that is not
\* a blank: the batch path for '[', the single-object path for '{', and an
\* answer of 400 for any other; blanks before that byte change nothing, and
\* the handler panics on no body.
FirstByteSelectsPath ==
    [][(last'.invoked /\ last'.req.verb \in {"POST", "PUT"})
          => /\ ~last'.panic
             /\ FirstSignificant(last'.req.body) = "["
                   => AnsweredAs(CreateBulk(store[last'.req.res], last'.req.res,
                                            inst[last'.req.res], last'.req.body))
             /\ FirstSignificant(last'.req.body) = "{"
                   => AnsweredAs(CreateSingle(store[last'.req.res], last'.req.res,
                                              inst[last'.req.res], last'.req.body,
                                              last'.req.verb = "PUT"))
             /\ FirstSignificant(last'.req.body) \notin {"[", "{"}
                   => last'.status = StatusBadRequest /\ store' = store]_vars

\* The operators the list of supported operators names.
ListedOperators ==
    {"eq", "ne", "contains", "ncontains", "gt", "gte", "lt", "lte", "in",
     "nin", "isnull"}

\* The keys of a query that are filter expressions with an operator outside
\* a set of operators.
KeysOutside(queryVals, operators) ==
    {k \in DOMAIN queryVals :
        /\ Len(k) = 5 /\ k[1] = "filter[" /\ k[3] = "][" /\ k[5] = "]"
        /\ k[4] \notin operators}

\* The query without one of its keys.
Without(queryVals, k) == [j \in DOMAIN queryVals \ {k} |-> queryVals[j]]

\* The listing last answered is the answer the same rows give to the query
\* without key k: the same status and error, the same data and total_items.
AnsweredAsWithout(k) ==
    \E other \in {GetAll(store[last.req.res], last.req.res, inst[last.req.res],
                          Without(last.req.query, k))} :
        /\ last.status = other.status
        /\ last.err = other.err
        /\ last.status = StatusOK =>
               /\ last.entity.data = other.entity.data
               /\ last.entity.meta.total_items = other.entity.meta.total_items

\* The request last answered is a listing that reached GetAll.
ListingAnswered ==
    last.invoked /\ last.req.verb = "GET" /\ ~last.req.item /\ ~last.panic

\* C21 as stated: a filter expression whose operator is not one of eq, ne,
\* contains, ncontains, gt, gte, lt, lte, in, nin, isnull changes nothing in
\* the GetAll response and brings no error.
UnlistedOperatorIsSkipped ==
    ListingAnswered =>
        \A k \in KeysOutside(last.req.query, ListedOperators) :
            /\ AnsweredAsWithout(k)
            /\ DOMAIN last.req.query = {k} => last.status = StatusOK

\* C21: a filter expression whose operator is not one of eq, ne, neq,
\* contains, ncontains, gt, gte, lt, lte, in, nin, isnull is skipped
\* silently: the GetAll response (status, data and total_items) is that of
\* the query without the expression, and the expression alone brings no
\* error, even when it names no column of the table.
UnknownOperatorIsSkipped ==
    ListingAnswered =>
        \A k \in KeysOutside(last.req.query, ListedOperators \cup {"neq"}) :
            /\ AnsweredAsWithout(k)
            /\ DOMAIN last.req.query = {k} => last.status = StatusOK

\* A listing whose query holds an expression with the operator like next to
\* an in expression was answered with the two rows the in expression
\* selects out of three.
UnknownOperatorSeen ==
    /\ ListingAnswered /\ last.status = StatusOK
    /\ FilterKey("field2", "like") \in DOMAIN last.req.query
    /\ FilterKey("field1", "in") \in DOMAIN last.req.query
    /\ Cardinality(store["example1"]) = 3
    /\ last.entity.meta.total_items = 2 /\ Len(last.entity.data) = 2

\* The integer a text writes in decimal, with or without a sign, whatever
\* its size; NotANumber for a text that writes none.
NotANumber == [number |-> FALSE, n |-> 0]

RECURSIVE Decimal(_, _)
Decimal(s, acc) ==
    IF Len(s) = 0 THEN acc ELSE Decimal(Tail(s), acc * 10 + DigitOf(s[1]))

IntegerOf(text) ==
    LET signed == Len(text) > 0 /\ text[1] \in {"-", "+"}
        digits == IF signed THEN Tail(text) ELSE text
    IN  IF Len(digits) = 0 \/ \E i \in 1..Len(digits) : ~IsDigit(digits[i])
        THEN NotANumber
        ELSE [number |-> TRUE,
              n |-> IF signed /\ text[1] = "-" THEN 0 - Decimal(digits, 0)
                    ELSE Decimal(digits, 0)]

\* The value in effect for a paging parameter when every positive integer
\* up to largest is used as given and anything else gives the default.
InEffect(queryVals, key, default, largest) ==
    LET v == IF key \in DOMAIN queryVals THEN IntegerOf(queryVals[key][1])
             ELSE NotANumber
    IN  IF v.number /\ v.n > 0 /\ v.n <= largest THEN v.n ELSE default

\* The request last answered is a listing whose query holds nothing but
\* paging parameters.
PagingOnly ==
    /\ ListingAnswered
    /\ DOMAIN last.req.query \subseteq {<<"page">>, <<"page_size">>}

IssuedDaysAgo(t) ==
    CASE t \in {"tWeekOld", "tIatOld"} -> 8
      [] t = "tIatFresh" -> 1
      [] t = "tExpired" -> 11
      [] OTHER -> 0

\* The request last answered is PUT /login.
Renewal == last.req.verb = "PUT" /\ last.req.res = "login"

\* The token a request presents: its Authorization header without the
\* Bearer prefix.
Presented == TrimPrefix(last.req.hdr, <<"Bearer ">>)

\* C23: PUT /login issues a renewed token only when the presented token is
\* valid and not too old: a token older than the renewal age limit is
\* refused with Unauthorized, and every renewed token carries exactly the
\* username and role of the presented token.
RenewalChecksTokenAge ==
    Renewal =>
        /\ last.status = StatusOK =>
               /\ last.req.hdr # Empty /\ Verifies(Presented)
               /\ IssuedDaysAgo(Presented[1]) <= RenewalAgeLimit
               /\ Verifies(last.entity.token)
               /\ IdentityOf(last.entity.token) = IdentityOf(Presented)
        /\ (Len(Presented) = 1 /\ Presented[1] \in DOMAIN Tokens
               /\ IssuedDaysAgo(Presented[1]) > RenewalAgeLimit)
              => last.status = StatusUnauthorized

\* C24: when two Updates to the same existing key have both run and both
\* succeeded, whatever the order of their steps, the row stored under that
\* key equals the complete body of one of the two requests: it is no
\* mixture of the two bodies and not the row from before the updates.
ConcurrentUpdatesLastWriteWins ==
    (\A w \in Workers :
        /\ flight[w].pc = "done" /\ flight[w].status = StatusOK
        /\ DOMAIN flight[w].body.obj = JSONFields("example1"))
        => \E w \in Workers :
               RowsWithKey(store["example1"], "example1", Split(UpdateID))
                   = {flight[w].body.obj}

\* C25: ConnectDB makes at most 5 connection attempts: it never attempts a
\* 6th time; at the first successful attempt it stops retrying and goes on
\* to the migrations; after the 5th failure in a row the process is
\* terminated and does not go on; and in every run it eventually either
\* holds a connection or has exited.
ConnectDBRetriesAtMostFive ==
    /\ [](boot.attempts <= 5)
    /\ [][/\ (~boot.db /\ boot'.db) => boot'.pc = "migrate"
          /\ boot.db => boot'.attempts = boot.attempts /\ boot'.pc # "open"
          /\ (boot.pc = "open" /\ boot.attempts = 5 /\ ~boot'.db /\ boot'.pc # "open")
                => boot'.pc = "exited"
          /\ boot.pc = "exited" => boot'.pc = "exited"]_vars
    /\ <>(boot.db \/ boot.pc = "exited")

\* The fifth attempt has failed after four failures and the process has
\* exited without a connection.
FifthFailureSeen ==
    boot.pc = "exited" /\ boot.attempts = 5 /\ ~boot.db /\ boot.err # NoErr

\* C26: the row a single-object Create stores depends on the body of that
\* request alone, whatever requests were handled before it: it holds the
\* fields of the body, and the zero value for every field the body leaves
\* out, never a value left over from an earlier request.
CreateStoresOnlyItsBody ==
    [][(/\ last'.invoked /\ last'.req.verb = "POST" /\ ~last'.req.item
        /\ last'.req.body.open = "{"
        /\ last'.status = StatusCreated)
          => store'[last'.req.res] \ store[last'.req.res]
                = {Decode(ZeroValue(last'.req.res), last'.req.body.obj)}]_vars

\* C27: no request answered with 401 or 403 has any effect on the store:
\* in every sequence of requests the store changes only in the step of a
\* request whose route is listed for the anonymous role, or whose token
\* passed the Auth Middleware with a role listed for its verb and resource.
RefusedRequestLeavesStore ==
    [][/\ last'.status \in {StatusUnauthorized, StatusForbidden} => store' = store
       /\ store' # store =>
              /\ last'.invoked
              /\ Allowed(perms, last'.req.verb, last'.req.res, last'.req.hdr)]_vars

\* A DELETE of a stored row with the token of a reader was answered 403 and
\* the row is still stored.
RefusedDeleteSeen ==
    /\ last.req.verb = "DELETE" /\ last.req.hdr = <<"Bearer ", "tUser">>
    /\ last.status = StatusForbidden /\ ~last.invoked
    /\ Stored(store[last.req.res], last.req.res, IdKey(last.req.id)) # {}

\* C28: every stored row is addressable by its tokenized id: the
\* "-"-joined primary-key values of a row that Create accepted split into
\* exactly as many segments as the resource has primary-key fields, and a
\* request by id with that token (here DeleteRecords and UpdateRecords)
\* reaches the row, also when a primary-key value contains "-".
StoredRowsAreAddressable ==
    \A res \in Resources : \A row \in store[res] :
        \E token \in {Tokenize(KeyOf(res, row))} :
            /\ Len(Split(token)) = Len(getJSONPrimaryKeys(res))
            /\ DeleteRecords(store[res], res, ZeroValue(res), token).rows
                   = store[res] \ {row}
            /\ UpdateRecords(store[res], res, row, token).err = NoErr

Min(a, b) == IF a < b THEN a ELSE b
Max(a, b) == IF a > b THEN a ELSE b

\* C29: each GetAll envelope is consistent in itself, also when writes to
\* the resource come between its steps: the number of items in data is
\* min(page_size, max(0, total_items - (current_page - 1) * page_size)) for
\* the total_items of the same envelope.
EnvelopeIsConsistent ==
    \A w \in Workers :
        (flight[w].pc = "done" /\ "meta" \in DOMAIN flight[w].entity)
            => Len(flight[w].entity.data)
                  = Min(flight[w].entity.meta.page_size,
                        Max(0, flight[w].entity.meta.total_items
                                  - (flight[w].entity.meta.current_page - 1)
                                        * flight[w].entity.meta.page_size))

\* The page number written in a link, and the query string of a link.
PageOf(link) == Atoi(link[3]).n
QueryOf(link) ==
    link[2] @@ (<<"page">> :> <<link[3]>>) @@ (<<"page_size">> :> <<link[4]>>)

\* The links an envelope carries; prev and next are left out when empty.
LinksOf(envelope) ==
    {envelope.links[name] : name \in DOMAIN envelope.links} \ {Empty}

\* The answer to a GET of the link, asked right after the listing.
Following(link) ==
    GetAll(store[link[1]], link[1], inst[link[1]], QueryOf(link))

\* C30: every link of a GetAll envelope targets a valid page: the page
\* number in self, first, prev, next and last is within
\* 1..max(total_pages, 1), also when total_items is 0 and when the page
\* asked for lies beyond total_pages; and following the last link gives a
\* response whose current_page is the page number written in that link.
LinksTargetValidPages ==
    Listed200 =>
        /\ \A link \in LinksOf(last.entity) :
               PageOf(link) \in 1..Max(last.entity.meta.total_pages, 1)
        /\ \E next \in {Following(last.entity.links.last)} :
               next.status = StatusOK
                   => next.entity.meta.current_page
                          = PageOf(last.entity.links.last)

====
